---- MODULE Spec2Model ----
(***************************************************************************)
(* Chunk stage of the document-to-knowledge pipeline (src/src/chunk-api):  *)
(* the LangGraph state machine of DocumentProcessingPipeline, the PDF and  *)
(* Word processors and the BlobStorageWriter.                              *)
(*                                                                         *)
(* Text is a sequence of runs [ch, n]: n characters of kind ch.  A run of  *)
(* "x" is filler without whitespace; " " and "\n" are whitespace; "SHIP",  *)
(* "TO", "INVOICE" are the words of the marker substrings; "LIG_FI" and     *)
(* "LIG_FL" are the one-character ligature glyphs U+FB01 and U+FB02.       *)
(* Optional values are <<>> (None) or <<v>>.                               *)
(***************************************************************************)
EXTENDS Integers, Sequences, FiniteSets, TLC

VARIABLES
    input,      \* arguments of process(): fixed for a behaviour
    pc,         \* node of the graph the run is at, "idle", "END" or "raised"
    state,      \* the PipelineState threaded through the graph
    tempFiles,  \* temporary files that exist on the local file system
    store,      \* destination container: blob name -> blob content
    usedIds,    \* document ids uuid4 has produced so far
    runs,       \* number of calls started
    trace,      \* events of the current call: stages, loader calls, uploads
    calls,      \* how the calls that are over ended, in order
    docs,       \* SpecStore: ProcessedDocuments returned by the processors
    einput,     \* SpecEmbed: the DocumentEmbedder and texts of direct calls
    epc,        \* SpecEmbed: "idle", "call" (a batch is to be sent) or "upload"
    ereq,       \* SpecEmbed: the operation in progress
    eidx,       \* embed_texts: i, the offset of the batch in progress
    attempt,    \* _embed_texts_batch: attempt
    embeddings, \* embed_texts: embeddings
    blog,       \* events of the _embed_texts_batch invocation: calls, sleeps
    tlog,       \* events of the embed_texts invocation: batches, pauses
    ecalls,     \* how the embedding operations that are over ended, in order
    embStore,   \* embedding container: blob name -> blob content
    ginput,     \* SpecGraph: arguments of process_document_chunks, fixed
    gpc,        \* SpecGraph: node of the graph workflow, "idle" or "END"
    gstate,     \* SpecGraph: the WorkflowState threaded through the workflow
    gdb,        \* the Neo4j database: nodes and relationships
    gtrace,     \* builder nodes the current workflow run has entered
    gcalls,     \* what the workflow runs that are over returned, in order
    gdrivers,   \* Neo4j driver connections that are open
    gresp,      \* /build-graph requests the download ended: their status
    sinput,     \* SpecSearch: configuration and arguments of direct calls
    spc,        \* search: "idle", "ensure", "prepare" or "batch"
    sreq,       \* search: the operation in progress
    sdocs,      \* upload_chunks_to_search_index: documents
    sidx,       \* upload_chunks_to_search_index: i, offset of the next batch
    indexes,    \* the search service: index name -> (key -> document)
    slog,       \* calls of the search service the operation has made
    scalls,     \* how the search operations that are over ended, in order
    rres,       \* SpecEnsure: the resource to ensure: its kind, how often it exists
    rpc,        \* SpecEnsure: invocation -> "check", "create" or "done"
    rout        \* SpecEnsure: invocation -> how it ended

chunkVars == <<input, pc, state, tempFiles, store, usedIds, runs, trace, calls, docs>>

embedVars ==
    <<einput, epc, ereq, eidx, attempt, embeddings, blog, tlog, ecalls, embStore>>

graphVars == <<ginput, gpc, gstate, gdb, gtrace, gcalls, gdrivers>>

searchVars == <<gresp, sinput, spc, sreq, sdocs, sidx, indexes, slog, scalls>>

ensureVars == <<rres, rpc, rout>>

vars == <<chunkVars, embedVars, graphVars, searchVars, ensureVars>>

\* what the actions of the chunk stage leave alone
nonChunkVars == <<embedVars, graphVars, searchVars, ensureVars>>

\* what the actions of the embedding stage leave alone
nonEmbedVars == <<chunkVars, graphVars, searchVars, ensureVars>>

\* what the actions of the graph stage leave alone
nonGraphVars == <<chunkVars, embedVars, searchVars, ensureVars>>

\* what the actions of the search stage leave alone
nonSearchVars == <<chunkVars, embedVars, graphVars, ensureVars>>

\* what the invocations of an ensure function leave alone
nonEnsureVars == <<chunkVars, embedVars, graphVars, searchVars>>

----------------------------------------------------------------------------
(* Bounds *)

MaxRuns == 2        \* Spec: process() calls in a behaviour
MaxRunPages == 1    \* Spec: physical pages of the document
MaxPages == 2       \* SpecStore: physical pages of the document
MaxDocs == 1        \* SpecStore: processor calls in a behaviour
MaxWrites == 2      \* SpecStore: write_processed_document calls in a behaviour

(* Program constants *)

MinPageChars == 50
PdfChunkSize == 250
PdfChunkOverlap == 25
WordChunkSize == 1000
WordChunkOverlap == 100
DefaultYear == 2024

----------------------------------------------------------------------------
(* Optional values and Python truthiness *)

None == <<>>
Some(v) == <<v>>
Val(o) == o[1]

\* `x or default`: None and the empty string are falsy, and so is the integer 0
OrDefaultStr(o, d) == IF o = None \/ o = Some("") THEN d ELSE Val(o)
OrDefaultInt(o, d) == IF o = None \/ o = Some(0) THEN d ELSE Val(o)

----------------------------------------------------------------------------
(* Text *)

R(c, k) == [ch |-> c, n |-> k]
SP == R(" ", 1)
NL == R("\n", 1)

IsSpace(r) == r.ch \in {" ", "\n"}

RECURSIVE CharLen(_)
CharLen(t) == IF t = <<>> THEN 0 ELSE Head(t).n + CharLen(Tail(t))

\* str.split(): the maximal runs of non-whitespace, in order
RECURSIVE SplitWs(_, _)
SplitWs(t, cur) ==
    IF t = <<>> THEN (IF cur = <<>> THEN <<>> ELSE <<cur>>)
    ELSE IF IsSpace(Head(t))
         THEN (IF cur = <<>> THEN <<>> ELSE <<cur>>) \o SplitWs(Tail(t), <<>>)
         ELSE SplitWs(Tail(t), Append(cur, Head(t)))

\* " ".join(words)
RECURSIVE JoinSp(_)
JoinSp(ws) ==
    IF ws = <<>> THEN <<>>
    ELSE IF Len(ws) = 1 THEN ws[1]
    ELSE ws[1] \o <<SP>> \o JoinSp(Tail(ws))

\* str.replace(U+FB01, "fi").replace(U+FB02, "fl")
ReplaceLigatures(t) ==
    IF t = <<>> THEN <<>> ELSE
    [i \in 1..Len(t) |->
        IF t[i].ch = "LIG_FI" THEN R("fi", 2 * t[i].n)
        ELSE IF t[i].ch = "LIG_FL" THEN R("fl", 2 * t[i].n)
        ELSE t[i]]

clean_text_pdf(t) == ReplaceLigatures(JoinSp(SplitWs(t, <<>>)))

clean_text_word(t) == JoinSp(SplitWs(t, <<>>))

\* str.strip()
RECURSIVE LStrip(_)
LStrip(t) == IF t # <<>> /\ IsSpace(Head(t)) THEN LStrip(Tail(t)) ELSE t
RECURSIVE RStrip(_)
RStrip(t) ==
    IF t # <<>> /\ IsSpace(t[Len(t)]) THEN RStrip(SubSeq(t, 1, Len(t) - 1)) ELSE t
Strip(t) == RStrip(LStrip(t))

\* `m in t` for a marker m made of whole runs
Contains(t, m) ==
    \E i \in 1..(Len(t) - Len(m) + 1) : SubSeq(t, i, i + Len(m) - 1) = m

ship_to_text == <<R("SHIP", 4), SP, R("TO", 2)>>
invoice_to_text == <<R("INVOICE", 7), SP, R("TO", 2)>>

----------------------------------------------------------------------------
(* RecursiveCharacterTextSplitter.create_documents: the number of chunks of  *)
(* one text.  A text no longer than chunk_size is one chunk; an unbroken run *)
(* longer than that is cut at chunk_size and every later chunk starts        *)
(* chunk_overlap characters before the end of the one before it.  The texts  *)
(* of RawTexts are of these two kinds.                                       *)
SplitCount(len, size, overlap) ==
    IF len <= size THEN 1
    ELSE 1 + ((len - size) + (size - overlap) - 1) \div (size - overlap)

\* the k-th of n chunks of a cleaned text
Piece(text, k, n) == [of |-> text, part |-> k, parts |-> n]

\* f"{chunk_counter}" and the bare int
PyStr(k) == [type |-> "str", v |-> k]
PyInt(k) == [type |-> "int", v |-> k]

----------------------------------------------------------------------------
(* PDFDocumentProcessor.process_pdf *)

\* variant: the marker test left out of the page filter
PdfSkips_short_only(cleaned) == CharLen(Strip(cleaned)) < MinPageChars

PdfSkips(cleaned) ==
    \/ CharLen(Strip(cleaned)) < MinPageChars
    \/ Contains(cleaned, ship_to_text)
    \/ Contains(cleaned, invoice_to_text)

\* the body of the page loop for the page at 0-based position page_num
PdfPage(pages, page_num, id, location, year, doc_type) ==
    LET cleaned == clean_text_pdf(pages[page_num + 1])
        n == SplitCount(CharLen(cleaned), PdfChunkSize, PdfChunkOverlap)
        \* chunk_counter = 0 at the top of every iteration of the page loop
        chunk_counter == 0
    IN  [page_number |-> page_num + 1,
         content |-> cleaned,
         chunks |->
            [k \in 1..n |->
                [page_content |-> Piece(cleaned, k, n),
                 metadata |->
                    [page |-> page_num + 1,
                     total_pages |-> Len(pages),
                     chunk_method |-> "smart_pdf_processor",
                     char_count |-> CharLen(cleaned),
                     location |-> location,
                     year |-> year,
                     doc_type |-> doc_type,
                     document_id |-> id,
                     chunk_size |-> PdfChunkSize,
                     chunk_overlap |-> PdfChunkOverlap,
                     chunk_index |-> PyStr(chunk_counter + (k - 1))]]]]

\* variant: the retained pages are numbered 1, 2, ... in the order they are kept
PdfLoop_renumbered(pages, page_num, id, location, year, doc_type) ==
    LET kept == SelectSeq([i \in 1..Len(pages) |-> i],
                          LAMBDA i : i > page_num
                                     /\ ~PdfSkips(clean_text_pdf(pages[i])))
    IN  IF kept = <<>> THEN <<>>
        ELSE [j \in 1..Len(kept) |->
                [PdfPage(pages, kept[j] - 1, id, location, year, doc_type)
                    EXCEPT !.page_number = j]]

RECURSIVE PdfLoop(_, _, _, _, _, _)
PdfLoop(pages, page_num, id, location, year, doc_type) ==
    IF page_num >= Len(pages) THEN <<>>
    ELSE (IF PdfSkips(clean_text_pdf(pages[page_num + 1]))
          THEN <<>>
          ELSE <<PdfPage(pages, page_num, id, location, year, doc_type)>>)
         \o PdfLoop(pages, page_num + 1, id, location, year, doc_type)

process_pdf(pages, id, location, year, doc_type, document_name) ==
    [document_id |-> id,
     document_name |-> document_name,
     total_pages |-> Len(pages),
     pages |-> PdfLoop(pages, 0, id, location, year, doc_type),
     year |-> year,
     location |-> location,
     doc_type |-> doc_type]

----------------------------------------------------------------------------
(* WordDocumentProcessor.process_document *)

WordSkips(cleaned) == CharLen(Strip(cleaned)) < MinPageChars

\* the body of the page loop; chunk_counter is the counter on entry
WordPage(pages, page_num, chunk_counter, id, location, year, doc_type, document_name) ==
    LET cleaned == clean_text_word(pages[page_num + 1])
        n == SplitCount(CharLen(cleaned), WordChunkSize, WordChunkOverlap)
    IN  [page_number |-> page_num + 1,
         content |-> cleaned,
         chunks |->
            [k \in 1..n |->
                [page_content |-> Piece(cleaned, k, n),
                 metadata |->
                    [page |-> page_num + 1,
                     page_number |-> page_num + 1,
                     total_pages |-> Len(pages),
                     chunk_method |-> "smart_word_doc_processor",
                     char_count |-> CharLen(cleaned),
                     location |-> location,
                     year |-> year,
                     doc_type |-> doc_type,
                     document_id |-> id,
                     document_name |-> document_name,
                     chunk_size |-> WordChunkSize,
                     chunk_overlap |-> WordChunkOverlap,
                     chunk_id |-> <<id, chunk_counter + (k - 1)>>,
                     chunk_index |-> PyInt(chunk_counter + (k - 1))]]]]

RECURSIVE WordLoop(_, _, _, _, _, _, _, _)
WordLoop(pages, page_num, chunk_counter, id, location, year, doc_type, document_name) ==
    IF page_num >= Len(pages) THEN <<>>
    ELSE IF WordSkips(clean_text_word(pages[page_num + 1]))
         THEN WordLoop(pages, page_num + 1, chunk_counter, id, location, year,
                       doc_type, document_name)
         ELSE LET p == WordPage(pages, page_num, chunk_counter, id, location, year,
                                doc_type, document_name)
              IN  <<p>> \o WordLoop(pages, page_num + 1, chunk_counter + Len(p.chunks),
                                    id, location, year, doc_type, document_name)

process_document_word(pages, id, location, year, doc_type, document_name) ==
    [document_id |-> id,
     document_name |-> document_name,
     year |-> year,
     location |-> location,
     doc_type |-> doc_type,
     total_pages |-> Len(pages),
     pages |-> WordLoop(pages, 0, 0, id, location, year, doc_type, document_name)]

----------------------------------------------------------------------------
(* BlobStorageWriter.write_processed_document *)

\* f"{doc_id}/metadata.json", f"{doc_id}/pages/page_{n:04d}.json",
\* f"{doc_id}/chunks/chunk_{n:06d}.json": one name per (doc_id, folder, n)
metadata_blob_name(doc_id) == <<doc_id, "metadata", 0>>
page_blob_name(doc_id, page_number) == <<doc_id, "pages", page_number>>
chunk_blob_name(doc_id, chunk_counter) == <<doc_id, "chunks", chunk_counter>>

EmptyStore == [name \in {} |-> None]

\* upload_blob(data, overwrite=True)
upload_blob(st, name, data) ==
    [b \in DOMAIN st \cup {name} |-> IF b = name THEN data ELSE st[b]]

\* variant: the chunk loop numbers on from the chunk blobs already stored
chunk_counter_start_append(st, doc) ==
    Cardinality({b \in DOMAIN st : b[1] = doc.document_id /\ b[2] = "chunks"})

\* chunk_counter = 0 before the chunk loop
chunk_counter_start(st, doc) == 0

RECURSIVE SumChunks(_)
SumChunks(pages) ==
    IF pages = <<>> THEN 0 ELSE Len(Head(pages).chunks) + SumChunks(Tail(pages))

\* for page in pages: for chunk in page.chunks: the pairs, in loop order
RECURSIVE ChunkLoop(_)
ChunkLoop(pages) ==
    IF pages = <<>> THEN <<>>
    ELSE (IF Len(Head(pages).chunks) = 0 THEN <<>>
          ELSE [k \in 1..Len(Head(pages).chunks) |->
                    [page |-> Head(pages), chunk |-> Head(pages).chunks[k]]])
         \o ChunkLoop(Tail(pages))

HasChunkId(chunk) == "chunk_id" \in DOMAIN chunk.metadata

\* variant: the default chunk_id is built from the chunk_index of the metadata
default_chunk_id_from_metadata(doc_id, chunk_counter, chunk) ==
    <<doc_id, chunk.metadata.chunk_index.v>>

\* chunk.metadata.get("chunk_id", f"{doc_id}_{chunk_counter}"): the default
default_chunk_id(doc_id, chunk_counter, chunk) == <<doc_id, chunk_counter>>

\* the uploads of one call, in the order the code makes them
Uploads(st, doc) ==
    LET doc_id == doc.document_id
        meta == <<[name |-> metadata_blob_name(doc_id),
                   data |-> [document_id |-> doc_id,
                             document_name |-> doc.document_name,
                             total_pages |-> doc.total_pages,
                             year |-> doc.year,
                             location |-> doc.location,
                             doc_type |-> doc.doc_type,
                             total_chunks |-> SumChunks(doc.pages)]]>>
        pgs == IF doc.pages = <<>> THEN <<>> ELSE
               [i \in 1..Len(doc.pages) |->
                    [name |-> page_blob_name(doc_id, doc.pages[i].page_number),
                     data |-> [page_number |-> doc.pages[i].page_number,
                               content |-> doc.pages[i].content,
                               char_count |-> CharLen(doc.pages[i].content),
                               chunk_count |-> Len(doc.pages[i].chunks)]]]
        loop == ChunkLoop(doc.pages)
        c0 == chunk_counter_start(st, doc)
        chs == IF loop = <<>> THEN <<>> ELSE
               [i \in 1..Len(loop) |->
                    [name |-> chunk_blob_name(doc_id, c0 + i - 1),
                     data |-> [chunk_id |->
                                    IF HasChunkId(loop[i].chunk)
                                    THEN loop[i].chunk.metadata.chunk_id
                                    ELSE default_chunk_id(doc_id, c0 + i - 1,
                                                          loop[i].chunk),
                               chunk_index |-> c0 + i - 1,
                               page_number |-> loop[i].page.page_number,
                               content |-> loop[i].chunk.page_content,
                               metadata |-> loop[i].chunk.metadata]]]
    IN  meta \o pgs \o chs

RECURSIVE ApplyUploads(_, _, _)
ApplyUploads(st, ups, n) ==
    IF n = 0 \/ ups = <<>> THEN st
    ELSE ApplyUploads(upload_blob(st, Head(ups).name, Head(ups).data), Tail(ups), n - 1)

\* the container after a call in which the first n uploads went through
StoreAfterWrite(st, doc, n) == ApplyUploads(st, Uploads(st, doc), n)

NamesOfKind(ups, kind) ==
    LET sel == SelectSeq(ups, LAMBDA u : u.name[2] = kind)
    IN  IF sel = <<>> THEN <<>> ELSE [i \in 1..Len(sel) |-> sel[i].name]

\* the dictionary a call returns when every upload went through
WriteResult(st, doc) ==
    LET ups == Uploads(st, doc)
    IN  [document_id |-> doc.document_id,
         container |-> "destination",
         uploaded_files |->
            [document_metadata |-> metadata_blob_name(doc.document_id),
             pages |-> NamesOfKind(ups, "pages"),
             chunks |-> NamesOfKind(ups, "chunks")],
         stats |-> [total_pages |-> Len(NamesOfKind(ups, "pages")),
                    total_chunks |-> Len(NamesOfKind(ups, "chunks"))]]

----------------------------------------------------------------------------
(* File names: sequences of one-character strings *)

\* the index of the last occurrence of c in p, 0 when there is none (rfind + 1)
RFind(p, c) ==
    LET at == {i \in 1..Len(p) : p[i] = c}
    IN  IF at = {} THEN 0 ELSE CHOOSE i \in at : \A j \in at : j <= i

\* os.path.splitext(p)[1]: from the last dot of the last path component,
\* unless that component has only dots before it
splitext_ext(p) ==
    LET sepIndex == RFind(p, "/")
        dotIndex == RFind(p, ".")
    IN  IF dotIndex > sepIndex
           /\ \E i \in (sepIndex + 1)..(dotIndex - 1) : p[i] # "."
        THEN SubSeq(p, dotIndex, Len(p))
        ELSE <<>>

LowerChar(c) ==
    CASE c = "P" -> "p" [] c = "D" -> "d" [] c = "F" -> "f" [] c = "O" -> "o"
      [] c = "C" -> "c" [] c = "X" -> "x" [] c = "S" -> "s" [] c = "V" -> "v"
      [] c = "R" -> "r" [] c = "E" -> "e" [] c = "Q" -> "q" [] c = "U" -> "u"
      [] c = "T" -> "t" [] c = "N" -> "n" [] OTHER -> c

\* str.lower()
lower(p) == IF p = <<>> THEN <<>> ELSE [i \in 1..Len(p) |-> LowerChar(p[i])]

EXT_PDF == <<".", "p", "d", "f">>
EXT_DOCX == <<".", "d", "o", "c", "x">>
EXT_DOC == <<".", "d", "o", "c">>

----------------------------------------------------------------------------
(* Inputs *)

FileNames ==
    { <<"r", ".", "p", "d", "f">>,            \* r.pdf
      <<"R", ".", "P", "d", "F">>,            \* R.PdF
      <<"r", ".", "d", "o", "c", "x">>,       \* r.docx
      <<"r", ".", "d", "o", "c">>,            \* r.doc
      <<"r", ".", "c", "s", "v">>,            \* r.csv
      <<"r", ".", "p", "d", "f", ".", "c", "s", "v">>,  \* r.pdf.csv
      <<".", "p", "d", "f">> }                \* .pdf : a dot file, no extension

\* page texts of the PDF files
PdfTexts ==
    { <<>>,                                               \* a blank page
      <<R("x", 60)>>,                                     \* one chunk
      <<R("x", 300)>>,                                    \* two chunks
      <<SP, R("x", 49), NL>>,                             \* 51 raw, 49 cleaned
      <<R("x", 48), R("LIG_FI", 1)>>,                     \* 49 raw, 50 cleaned
      <<R("x", 60), SP, R("SHIP", 4), NL, R("TO", 2)>>,   \* "SHIP\nTO"
      <<R("INVOICE", 7), SP, SP, R("TO", 2), SP, R("x", 60)>> }

\* page texts of the Word files
WordTexts ==
    { <<>>,
      <<R("x", 60)>>,                                     \* one chunk
      <<R("x", 1100)>>,                                   \* two chunks
      <<SP, R("x", 49), NL>>,                             \* 51 raw, 49 cleaned
      <<R("x", 60), SP, R("SHIP", 4), NL, R("TO", 2)>> }  \* kept by this processor

RECURSIVE SeqsUpTo(_, _)
SeqsUpTo(S, n) ==
    IF n = 0 THEN {<<>>}
    ELSE LET shorter == SeqsUpTo(S, n - 1)
         IN  shorter \cup {Append(q, x) : q \in {r \in shorter : Len(r) = n - 1}, x \in S}

\* document_content: the bytes of a PDF or a Word file with these pages, or
\* bytes no loader can read
Contents(maxPages) ==
    [format : {"pdf"}, pages : SeqsUpTo(PdfTexts, maxPages)]
        \cup [format : {"word"}, pages : SeqsUpTo(WordTexts, maxPages)]
        \cup {[format |-> "corrupt", pages |-> <<>>]}

\* (location, year, doc_type) as the caller gives them
CallerMetadata ==
    { [location |-> None, year |-> None, doc_type |-> None],
      [location |-> Some("TX"), year |-> Some(2023), doc_type |-> Some("request")] }

Inputs ==
    [document_name : {"doc"}, file_name : FileNames,
     document_content : Contents(MaxRunPages), meta : CallerMetadata]

----------------------------------------------------------------------------
(* DocumentProcessingPipeline: the node functions *)

\* process(): initial_state
InitialState(in) ==
    [document_name |-> in.document_name,
     file_name |-> in.file_name,
     document_content |-> in.document_content,
     location |-> in.meta.location,
     year |-> in.meta.year,
     doc_type |-> in.meta.doc_type,
     metadata |-> None,
     temp_file_path |-> None,
     processor_type |-> None,
     processed_document |-> None,
     blob_write_result |-> None,
     error |-> None]

extract_metadata(st) ==
    [st EXCEPT !.metadata =
        Some([document_name |-> st.document_name,
              file_extension |-> lower(splitext_ext(st.file_name)),
              location |-> st.location,
              year |-> st.year,
              doc_type |-> st.doc_type])]

\* variant: an unrecognised extension falls back to the PDF processor
route_processor_default_pdf(st) ==
    LET file_extension == Val(st.metadata).file_extension
    IN  IF file_extension \in {EXT_DOCX, EXT_DOC}
        THEN [st EXCEPT !.processor_type = Some("word")]
        ELSE [st EXCEPT !.processor_type = Some("pdf")]

route_processor(st) ==
    LET file_extension == Val(st.metadata).file_extension
    IN  IF file_extension = EXT_PDF
        THEN [st EXCEPT !.processor_type = Some("pdf")]
        ELSE IF file_extension \in {EXT_DOCX, EXT_DOC}
        THEN [st EXCEPT !.processor_type = Some("word")]
        ELSE [st EXCEPT !.error = Some(<<"Unsupported file type: ", file_extension>>)]

\* the state save_temp_file returns when the file was created and written
save_temp_file(st, temp_file_path) == [st EXCEPT !.temp_file_path = Some(temp_file_path)]

\* loader.load() on temp_file_path: the pages, or an exception when there is
\* no such file or the bytes are not of the loader's format
Load(st, files, format) ==
    IF st.temp_file_path # None /\ Val(st.temp_file_path) \in files
       /\ st.document_content.format = format
    THEN [ok |-> TRUE, pages |-> st.document_content.pages]
    ELSE [ok |-> FALSE, pages |-> <<>>]

\* the try / except of _process_document; id is the uuid4 the processor draws
process_document(st, files, id) ==
    LET metadata == Val(st.metadata)
        location == OrDefaultStr(metadata.location, "Unknown")
        year == OrDefaultInt(metadata.year, DefaultYear)
        doc_type == OrDefaultStr(metadata.doc_type, "general")
        document_name == metadata.document_name
    IN  IF st.processor_type = Some("pdf")
        THEN LET l == Load(st, files, "pdf")
             IN  IF l.ok
                 THEN [st EXCEPT !.processed_document =
                         Some(process_pdf(l.pages, id, location, year, doc_type,
                                          document_name))]
                 ELSE [st EXCEPT !.error =
                         Some(<<"Error processing document: ", "PyPDFLoader">>)]
        ELSE IF st.processor_type = Some("word")
        THEN LET l == Load(st, files, "word")
             IN  IF l.ok
                 THEN [st EXCEPT !.processed_document =
                         Some(process_document_word(l.pages, id, location, year,
                                                    doc_type, document_name))]
                 ELSE [st EXCEPT !.error =
                         Some(<<"Error processing document: ",
                                "UnstructuredWordDocumentLoader">>)]
        ELSE [st EXCEPT !.error = Some(<<"Unknown processor type: ", "None">>)]

\* variant: the file is removed at the end of the try block, not in a finally
unlink_temp_on_success(files, st, result) ==
    IF result.error = None /\ st.temp_file_path # None
    THEN files \ {Val(st.temp_file_path)}
    ELSE files

\* the finally of _process_document
unlink_temp(files, st, result) ==
    IF st.temp_file_path # None /\ Val(st.temp_file_path) \in files
    THEN files \ {Val(st.temp_file_path)}
    ELSE files

\* the number of uploads a write_processed_document(processed_doc) call makes
\* when none fails; with processed_doc = None the call raises before any
UploadCount(st, blobs) ==
    IF st.processed_document = None THEN 0
    ELSE Len(Uploads(blobs, Val(st.processed_document)))

\* variant: the except branch reports the uploads made before the failure
write_to_blob_partial_result(st, blobs, n) ==
    IF st.processed_document = None
    THEN [st EXCEPT !.error = Some(<<"Error writing to blob storage: ", "upload">>)]
    ELSE IF n = UploadCount(st, blobs)
    THEN [st EXCEPT !.blob_write_result =
            Some(WriteResult(blobs, Val(st.processed_document)))]
    ELSE [st EXCEPT !.error = Some(<<"Error writing to blob storage: ", "upload">>),
                    !.blob_write_result =
                        Some(WriteResult(blobs, Val(st.processed_document)))]

\* the try / except of _write_to_blob; n uploads went through
write_to_blob(st, blobs, n) ==
    IF st.processed_document # None /\ n = UploadCount(st, blobs)
    THEN [st EXCEPT !.blob_write_result =
            Some(WriteResult(blobs, Val(st.processed_document)))]
    ELSE [st EXCEPT !.error = Some(<<"Error writing to blob storage: ", "upload">>)]

\* variant: the error field is not looked at
should_continue_always(st) == "continue"

\* state.get("error") is truthy: every error text the nodes set is non-empty
should_continue(st) == IF st.error # None THEN "END" ELSE "continue"

\* variant: the edge out of route_processor leads past save_temp_file
Edge_skip_save(node, st) ==
    CASE node = "extract_metadata" -> "route_processor"
      [] node = "route_processor" ->
            IF st.error = None THEN "process_document" ELSE "END"
      [] node = "save_temp_file" -> "process_document"
      [] node = "process_document" ->
            IF st.error = None THEN "write_to_blob" ELSE "END"
      [] node = "write_to_blob" -> "END"

\* _build_graph: the node that follows `node` once it returned st
Edge(node, st) ==
    CASE node = "extract_metadata" -> "route_processor"
      [] node = "route_processor" ->
            IF should_continue(st) = "continue" THEN "save_temp_file" ELSE "END"
      [] node = "save_temp_file" -> "process_document"
      [] node = "process_document" ->
            IF should_continue(st) = "continue" THEN "write_to_blob" ELSE "END"
      [] node = "write_to_blob" -> "END"

----------------------------------------------------------------------------
(* DocumentEmbedder: the constructor and the default arguments *)

DefaultBatchSize == 100
DefaultPauseEvery == 300
DefaultMaxRetries == 5
PauseSeconds == 5

\* DocumentEmbedder(config, batch_size, pause_every)
DocumentEmbedder(batch_size, pause_every) ==
    [batch_size |-> batch_size, pause_every |-> pause_every]

\* main.py: embedder = DocumentEmbedder(config=openai_config)
embedder == DocumentEmbedder(DefaultBatchSize, DefaultPauseEvery)

NoRequest ==
    [op |-> "none", document_id |-> 0, chunks |-> <<>>, cfg |-> embedder,
     texts |-> <<>>]

\* no embedding operation has been called
EmbedIdle ==
    /\ einput = [embedder |-> embedder, texts |-> <<>>]
    /\ epc = "idle"
    /\ ereq = NoRequest
    /\ eidx = 0
    /\ attempt = 0
    /\ embeddings = <<>>
    /\ blog = <<>>
    /\ tlog = <<>>
    /\ ecalls = <<>>
    /\ embStore = EmptyStore

EmptyGraph == [nodes |-> {}, rels |-> {}]

NoGraphDocument == [document_id |-> 0, chunks |-> <<>>]

NoWorkflowState ==
    [document_id |-> 0, doc_type |-> <<>>, location |-> None, year |-> None,
     chunks |-> <<>>, nodes_created |-> 0, error |-> None]

\* no graph workflow has been started and the database is empty
GraphIdle ==
    /\ ginput = NoGraphDocument
    /\ gpc = "idle"
    /\ gstate = NoWorkflowState
    /\ gdb = EmptyGraph
    /\ gtrace = <<>>
    /\ gcalls = <<>>
    /\ gdrivers = 0

\* no index exists in the search service
NoIndexes == [name \in {} |-> <<>>]

NoSearchInput ==
    [group_access_list |-> <<"group-A">>, index_name |-> "document-chunks",
     chunks |-> <<>>, seeded |-> FALSE]

NoSearchRequest ==
    [op |-> "none", document_id |-> 0, index_name |-> "", chunks |-> <<>>,
     group_access_list |-> <<>>]

\* no operation of the search service has been called
SearchIdle ==
    /\ gresp = <<>>
    /\ sinput = NoSearchInput
    /\ spc = "idle"
    /\ sreq = NoSearchRequest
    /\ sdocs = <<>>
    /\ sidx = 0
    /\ indexes = NoIndexes
    /\ slog = <<>>
    /\ scalls = <<>>

\* no ensure function has been invoked
EnsureIdle ==
    /\ rres = [kind |-> "none", copies |-> 0]
    /\ rpc = <<>>
    /\ rout = <<>>

----------------------------------------------------------------------------
(* DocumentProcessingPipeline.process: one action per node of the graph *)

\* uuid.uuid4(): an id no earlier call returned; ids are only ever compared
\* for equality, so which one it is does not matter
uuid4(used) == Cardinality(used) + 1

Event(e, a) == [ev |-> e, arg |-> a]

\* the nodes invoked so far in the current call, in order
Stages(tr) ==
    LET sel == SelectSeq(tr, LAMBDA e : e.ev = "stage")
    IN  IF sel = <<>> THEN <<>> ELSE [i \in 1..Len(sel) |-> sel[i].arg]

HasEvent(tr, e) == \E i \in 1..Len(tr) : tr[i].ev = e

\* graph.invoke returns the final state once the run is at END
Returned(node, st) ==
    IF node = "END"
    THEN Append(calls, [op |-> "process", raised |-> FALSE, error |-> st.error,
                        blob_write_result |-> st.blob_write_result])
    ELSE calls

\* an exception of a node leaves graph.invoke and process()
Raised == Append(calls, [op |-> "process", raised |-> TRUE, error |-> None,
                         blob_write_result |-> None])

\* the path NamedTemporaryFile picks: one never used before
TempPath == runs

Process ==
    /\ pc \in {"idle", "END", "raised"}
    /\ runs < MaxRuns
    /\ runs' = runs + 1
    /\ state' = InitialState(input)
    /\ pc' = "extract_metadata"
    /\ trace' = <<>>
    /\ UNCHANGED <<input, tempFiles, store, usedIds, calls, docs>>
    /\ UNCHANGED nonChunkVars

ExtractMetadata ==
    /\ pc = "extract_metadata"
    /\ state' = extract_metadata(state)
    /\ pc' = Edge("extract_metadata", state')
    /\ trace' = Append(trace, Event("stage", "extract_metadata"))
    /\ calls' = Returned(pc', state')
    /\ UNCHANGED <<input, tempFiles, store, usedIds, runs, docs>>
    /\ UNCHANGED nonChunkVars

RouteProcessor ==
    /\ pc = "route_processor"
    /\ state' = route_processor(state)
    /\ pc' = Edge("route_processor", state')
    /\ trace' = Append(trace, Event("stage", "route_processor"))
    /\ calls' = Returned(pc', state')
    /\ UNCHANGED <<input, tempFiles, store, usedIds, runs, docs>>
    /\ UNCHANGED nonChunkVars

\* NamedTemporaryFile(delete=False) may fail to create the file, and write()
\* may fail after it was created; neither is caught
SaveTempFile ==
    /\ pc = "save_temp_file"
    /\ \E outcome \in {"ok", "create_fails", "write_fails"} :
        /\ tempFiles' = IF outcome = "create_fails" THEN tempFiles
                         ELSE tempFiles \cup {TempPath}
        /\ trace' = IF outcome = "create_fails"
                     THEN Append(trace, Event("stage", "save_temp_file"))
                     ELSE trace \o <<Event("stage", "save_temp_file"),
                                     Event("mkstemp", TempPath)>>
        /\ IF outcome = "ok"
           THEN /\ state' = save_temp_file(state, TempPath)
                /\ pc' = Edge("save_temp_file", state')
                /\ calls' = Returned(pc', state')
           ELSE /\ state' = state
                /\ pc' = "raised"
                /\ calls' = Raised
    /\ UNCHANGED <<input, store, usedIds, runs, docs>>
    /\ UNCHANGED nonChunkVars

ProcessDocument ==
    /\ pc = "process_document"
    /\ state' = process_document(state, tempFiles, uuid4(usedIds))
    /\ usedIds' = IF state'.processed_document # None
                   THEN usedIds \cup {uuid4(usedIds)} ELSE usedIds
    /\ tempFiles' = unlink_temp(tempFiles, state, state')
    /\ pc' = Edge("process_document", state')
    /\ trace' = trace \o <<Event("stage", "process_document")>>
                     \o (IF state.processor_type # None
                         THEN <<Event("load", Val(state.processor_type))>> ELSE <<>>)
    /\ calls' = Returned(pc', state')
    /\ UNCHANGED <<input, store, runs, docs>>
    /\ UNCHANGED nonChunkVars

\* any upload_blob of the call may fail: the n uploads before it stay
WriteToBlob ==
    /\ pc = "write_to_blob"
    /\ \E n \in 0..UploadCount(state, store) :
        /\ state' = write_to_blob(state, store, n)
        /\ store' = IF state.processed_document = None THEN store
                     ELSE StoreAfterWrite(store, Val(state.processed_document), n)
        /\ trace' = trace \o <<Event("stage", "write_to_blob"), Event("uploads", n)>>
    /\ pc' = Edge("write_to_blob", state')
    /\ calls' = Returned(pc', state')
    /\ UNCHANGED <<input, tempFiles, usedIds, runs, docs>>
    /\ UNCHANGED nonChunkVars

Init ==
    /\ input \in Inputs
    /\ pc = "idle"
    /\ state = InitialState(input)
    /\ tempFiles = {}
    /\ store = EmptyStore
    /\ usedIds = {}
    /\ runs = 0
    /\ trace = <<>>
    /\ calls = <<>>
    /\ docs = {}
    /\ EmbedIdle
    /\ GraphIdle
    /\ SearchIdle
    /\ EnsureIdle

Next ==
    \/ Process
    \/ ExtractMetadata
    \/ RouteProcessor
    \/ SaveTempFile
    \/ ProcessDocument
    \/ WriteToBlob

Spec == Init /\ [][Next]_vars

----------------------------------------------------------------------------
(* SpecStore: the processors and the writer called directly, any number of  *)
(* times, on the files of one document                                      *)

StoreInputs ==
    [document_name : {"doc"}, file_name : {<<"r", ".", "p", "d", "f">>},
     document_content : {c \in Contents(MaxPages) : c.format # "corrupt"},
     meta : {m \in CallerMetadata : m.location # None}]

\* process_pdf(pdf_path, location, year, doc_type, document_name) on a PDF file
CallProcessPdf ==
    /\ Cardinality(docs) < MaxDocs
    /\ input.document_content.format = "pdf"
    /\ docs' = docs \cup
          {process_pdf(input.document_content.pages, uuid4(usedIds),
                       Val(input.meta.location), Val(input.meta.year),
                       Val(input.meta.doc_type), input.document_name)}
    /\ usedIds' = usedIds \cup {uuid4(usedIds)}
    /\ UNCHANGED <<input, pc, state, tempFiles, store, runs, trace, calls>>
    /\ UNCHANGED nonChunkVars

\* process_document(doc_path, location, year, doc_type, document_name) on a
\* Word file
CallProcessWord ==
    /\ Cardinality(docs) < MaxDocs
    /\ input.document_content.format = "word"
    /\ docs' = docs \cup
          {process_document_word(input.document_content.pages, uuid4(usedIds),
                                 Val(input.meta.location), Val(input.meta.year),
                                 Val(input.meta.doc_type), input.document_name)}
    /\ usedIds' = usedIds \cup {uuid4(usedIds)}
    /\ UNCHANGED <<input, pc, state, tempFiles, store, runs, trace, calls>>
    /\ UNCHANGED nonChunkVars

\* write_processed_document(doc) in which the first n uploads go through; the
\* call returns its dictionary when all did, and raises otherwise
CallWrite ==
    /\ runs < MaxWrites
    /\ runs' = runs + 1
    /\ \E doc \in docs :
        \E n \in 0..Len(Uploads(store, doc)) :
            /\ store' = StoreAfterWrite(store, doc, n)
            /\ calls' = IF n = Len(Uploads(store, doc))
                         THEN Append(calls, [op |-> "write", doc |-> doc.document_id])
                         ELSE calls
    /\ UNCHANGED <<input, pc, state, tempFiles, usedIds, trace, docs>>
    /\ UNCHANGED nonChunkVars

InitStore ==
    /\ input \in StoreInputs
    /\ pc = "idle"
    /\ state = InitialState(input)
    /\ tempFiles = {}
    /\ store = EmptyStore
    /\ usedIds = {}
    /\ runs = 0
    /\ trace = <<>>
    /\ calls = <<>>
    /\ docs = {}
    /\ EmbedIdle
    /\ GraphIdle
    /\ SearchIdle
    /\ EnsureIdle

NextStore ==
    \/ CallProcessPdf
    \/ CallProcessWord
    \/ CallWrite

SpecStore == InitStore /\ [][NextStore]_vars

----------------------------------------------------------------------------
(* embedding-api: DocumentEmbedder.embed_texts, _embed_texts_batch and the  *)
(* /embed operation.  Durations are in milliseconds.                        *)

MaxTexts == 4        \* SpecEmbed: texts of a direct embed_texts call
MaxBatchSize == 3    \* SpecEmbed: batch_size of the embedder of direct calls
MaxPauseEvery == 3   \* SpecEmbed: pause_every of the embedder of direct calls
MaxEmbedCalls == 1   \* SpecEmbed: embedding operations in a behaviour

Min(a, b) == IF a <= b THEN a ELSE b

\* the vector the backend computes for a text
Emb(text) == [embedding_of |-> text]

\* client.embeddings.create(input=texts, model=...) when it succeeds, read as
\* [item.embedding for item in response.data]: one item per input, in order
embeddings_create(texts) == [k \in 1..Len(texts) |-> Emb(texts[k])]

\* texts[i:end_index] with end_index = min(i + batch_size, text_count)
Batch(texts, i, batch_size) ==
    SubSeq(texts, i + 1, Min(i + batch_size, Len(texts)))

\* variant: the vectors of a batch are put in front of the earlier ones
extend_front(all, batch_embeddings) == batch_embeddings \o all

\* embeddings.extend(batch_embeddings)
extend(all, batch_embeddings) == all \o batch_embeddings

\* 2 ** attempt
RECURSIVE Pow2(_)
Pow2(n) == IF n = 0 THEN 1 ELSE 2 * Pow2(n - 1)

\* random.uniform(0, 1): the two ends of [0, 1), in milliseconds
Jitters == {0, 999}

\* variant: the backoff grows by one second per attempt
wait_time_linear(att, jitter) == (att + 1) * 1000 + jitter

\* wait_time = (2 ** attempt) + random.uniform(0, 1)
wait_time(att, jitter) == Pow2(att) * 1000 + jitter

\* variant: every exception of the backend is handled like a rate limit
except_clause_any(exc, att, max_retries) ==
    IF att = max_retries - 1 THEN "raise" ELSE "retry"

\* the except clauses of _embed_texts_batch: what follows an exception of
\* the backend call of attempt number att
except_clause(exc, att, max_retries) ==
    IF exc = "RateLimitError"
    THEN (IF att = max_retries - 1 THEN "raise" ELSE "retry")
    ELSE "raise"

\* variant: a failed batch ends the loop and the vectors so far are returned
embed_texts_except_partial(exc, all) == [raised |-> FALSE, exc |-> "", value |-> all]

\* the except clause of embed_texts: the exception goes on to the caller
embed_texts_except(exc, all) == [raised |-> TRUE, exc |-> exc, value |-> <<>>]

\* end_index % self.pause_every == 0 and end_index < text_count
PauseDue(end_index, text_count, pause_every) ==
    end_index % pause_every = 0 /\ end_index < text_count

CallEv(i, batch, outcome) ==
    [ev |-> "call", at |-> i, texts |-> batch, ms |-> 0, outcome |-> outcome]
SleepEv(ms) ==
    [ev |-> "sleep", at |-> 0, texts |-> <<>>, ms |-> ms, outcome |-> ""]
BatchEv(i, end_index) == [ev |-> "batch", lo |-> i, hi |-> end_index, ms |-> 0]
\* time.sleep(5)
PauseEv(end_index) ==
    [ev |-> "pause", lo |-> end_index, hi |-> end_index, ms |-> PauseSeconds * 1000]
FailedEv(i, end_index) == [ev |-> "failed", lo |-> i, hi |-> end_index, ms |-> 0]

----------------------------------------------------------------------------
(* embedding-api main.py *)

\* variant: the blob is named after the page of the chunk
embedded_blob_name_by_page(document_id, c) == <<document_id, "chunk-", c.page_number>>

\* f"{request.document_id}/chunk-{c.chunk_index}.json"
embedded_blob_name(document_id, c) == <<document_id, "chunk-", c.chunk_index>>

\* container_client.list_blobs(name_starts_with=f"{document_id}/chunks/"): the
\* names with the prefix, in the order of the names
list_blobs(st, document_id) ==
    LET S == {b \in DOMAIN st : b[1] = document_id /\ b[2] = "chunks"}
    IN  [k \in 1..Cardinality(S) |->
            CHOOSE b \in S : Cardinality({c \in S : c[3] < b[3]}) = k - 1]

\* ChunkData(**chunk_data) validates: ChunkMetadata.chunk_index is
\* Optional[str], and an int is taken for it by pydantic 1 only
Validates(chunk_data, pydantic_major) ==
    chunk_data.metadata.chunk_index.type = "str" \/ pydantic_major = 1

\* ChunkData(**chunk_data); metadata.chunk_index is a str from here on
ChunkData(chunk_data) ==
    [chunk_id |-> chunk_data.chunk_id,
     chunk_index |-> chunk_data.chunk_index,
     page_number |-> chunk_data.page_number,
     content |-> chunk_data.content,
     metadata |-> [chunk_data.metadata EXCEPT
                      !.chunk_index = PyStr(chunk_data.metadata.chunk_index.v)]]

\* reachable: the storage account answers the listing and the downloads
download_chunks_from_blob_storage(st, document_id, pydantic_major, reachable) ==
    LET names == list_blobs(st, document_id)
    IN  IF ~reachable THEN [status |-> 500, chunks |-> <<>>]
        ELSE IF \E k \in 1..Len(names) : ~Validates(st[names[k]], pydantic_major)
        THEN [status |-> 500, chunks |-> <<>>]
        ELSE IF Len(names) = 0 THEN [status |-> 404, chunks |-> <<>>]
        ELSE [status |-> 200,
              chunks |-> [k \in 1..Len(names) |-> ChunkData(st[names[k]])]]

\* for idx, (c, emb) in enumerate(zip(chunks, embeddings)): the uploads
EmbeddedUploads(document_id, chunks, embs) ==
    [k \in 1..Min(Len(chunks), Len(embs)) |->
        [name |-> embedded_blob_name(document_id, chunks[k]),
         data |-> [chunk_id |-> chunks[k].chunk_id,
                   chunk_index |-> chunks[k].chunk_index,
                   page_number |-> chunks[k].page_number,
                   content |-> chunks[k].content,
                   metadata |-> chunks[k].metadata,
                   embedding |-> embs[k]]]]

----------------------------------------------------------------------------
(* SpecEmbed: embed_texts called directly on an embedder of any batch_size  *)
(* and pause_every, and /embed called on the module's embedder against the  *)
(* container the chunk stage wrote; one action per call of the backend      *)

TextNames == <<"a", "b", "a">>

\* a list of n texts, some of them equal
Texts(n) == [k \in 1..n |-> TextNames[((k - 1) % Len(TextNames)) + 1]]

EmbedTextInputs ==
    [embedder : {DocumentEmbedder(b, p) : b \in 1..MaxBatchSize, p \in 1..MaxPauseEvery},
     texts : {Texts(n) : n \in 0..MaxTexts}]

\* the documents whose chunks are in the container
EmbedDocInputs ==
    [document_name : {"doc"}, file_name : {<<"r", ".", "p", "d", "f">>},
     document_content : {c \in Contents(MaxRunPages) : c.format # "corrupt"},
     meta : {m \in CallerMetadata : m.location # None}]

NoDocument == CHOOSE in \in EmbedDocInputs :
    in.document_content = [format |-> "pdf", pages |-> <<>>]

ProcessedOf(in, id) ==
    IF in.document_content.format = "pdf"
    THEN process_pdf(in.document_content.pages, id, Val(in.meta.location),
                     Val(in.meta.year), Val(in.meta.doc_type), in.document_name)
    ELSE process_document_word(in.document_content.pages, id, Val(in.meta.location),
                               Val(in.meta.year), Val(in.meta.doc_type),
                               in.document_name)

\* how far the write of the chunk stage got: any number of uploads
WritesOf(in) == 0..Len(Uploads(EmptyStore, ProcessedOf(in, uuid4({}))))

\* document ids of /embed requests: the document's and one nothing was
\* written under
RequestIds == {uuid4({}), uuid4({uuid4({})})}

OpRecord(req, raised, exc, value, status, uploaded) ==
    [op |-> req.op, document_id |-> req.document_id, texts |-> req.texts,
     raised |-> raised, exc |-> exc, value |-> value, status |-> status,
     uploaded |-> uploaded]

\* embed_texts is over: a direct call hands its result to the caller, /embed
\* goes on to the uploads or answers 500
EmbedTextsOver(r) ==
    IF ereq.op = "embed" /\ ~r.raised
    THEN /\ epc' = "upload"
         /\ ecalls' = ecalls
    ELSE /\ epc' = "idle"
         /\ ecalls' = Append(ecalls,
                OpRecord(ereq, r.raised, r.exc, r.value,
                         IF ereq.op = "embed" THEN 500 ELSE 0, 0))

\* embedder.embed_texts(texts) called directly
EmbedTexts ==
    /\ epc = "idle"
    /\ Len(ecalls) < MaxEmbedCalls
    /\ LET req == [op |-> "embed_texts", document_id |-> 0, chunks |-> <<>>,
                   cfg |-> einput.embedder, texts |-> einput.texts]
       IN  /\ ereq' = req
           /\ IF Len(req.texts) = 0
              THEN /\ epc' = "idle"
                   /\ ecalls' = Append(ecalls, OpRecord(req, FALSE, "", <<>>, 0, 0))
              ELSE /\ epc' = "call"
                   /\ ecalls' = ecalls
    /\ eidx' = 0
    /\ attempt' = 0
    /\ embeddings' = <<>>
    /\ blog' = <<>>
    /\ tlog' = <<>>
    /\ UNCHANGED <<einput, embStore>>
    /\ UNCHANGED nonEmbedVars

\* POST /embed up to the first call of the backend: the download
EmbedDocument ==
    /\ epc = "idle"
    /\ Len(ecalls) < MaxEmbedCalls
    /\ \E document_id \in RequestIds, pydantic_major \in {1, 2}, reachable \in BOOLEAN :
        LET dl == download_chunks_from_blob_storage(store, document_id,
                                                    pydantic_major, reachable)
            req == [op |-> "embed", document_id |-> document_id,
                    chunks |-> dl.chunks, cfg |-> embedder,
                    texts |-> [k \in 1..Len(dl.chunks) |-> dl.chunks[k].content]]
        IN  /\ ereq' = req
            /\ IF dl.status = 200
               THEN /\ epc' = "call"
                    /\ ecalls' = ecalls
               ELSE /\ epc' = "idle"
                    /\ ecalls' = Append(ecalls,
                            OpRecord(req, TRUE, "HTTPException", <<>>, dl.status, 0))
    /\ eidx' = 0
    /\ attempt' = 0
    /\ embeddings' = <<>>
    /\ blog' = <<>>
    /\ tlog' = <<>>
    /\ UNCHANGED <<einput, embStore>>
    /\ UNCHANGED nonEmbedVars

\* the events of the _embed_texts_batch invocation before this call
BlogSoFar == IF attempt = 0 THEN <<>> ELSE blog

\* the backend returns the vectors of the batch: _embed_texts_batch returns,
\* embed_texts extends its list, pauses if due, and goes on or returns
EmbeddingsCreated ==
    /\ epc = "call"
    /\ LET text_count == Len(ereq.texts)
           end_index == Min(eidx + ereq.cfg.batch_size, text_count)
           batch == Batch(ereq.texts, eidx, ereq.cfg.batch_size)
           all == extend(embeddings, embeddings_create(batch))
       IN  /\ blog' = Append(BlogSoFar, CallEv(eidx, batch, "ok"))
           /\ tlog' = tlog \o <<BatchEv(eidx, end_index)>>
                          \o (IF PauseDue(end_index, text_count, ereq.cfg.pause_every)
                              THEN <<PauseEv(end_index)>> ELSE <<>>)
           /\ embeddings' = all
           /\ eidx' = end_index
           /\ IF end_index < text_count
              THEN /\ epc' = "call"
                   /\ ecalls' = ecalls
              ELSE EmbedTextsOver([raised |-> FALSE, exc |-> "", value |-> all])
    /\ attempt' = 0
    /\ UNCHANGED <<einput, ereq, embStore>>
    /\ UNCHANGED nonEmbedVars

\* the backend call raises exc: a backoff sleep and the next attempt, or the
\* exception leaves _embed_texts_batch and embed_texts
BackendRaises(exc) ==
    /\ epc = "call"
    /\ LET text_count == Len(ereq.texts)
           end_index == Min(eidx + ereq.cfg.batch_size, text_count)
           batch == Batch(ereq.texts, eidx, ereq.cfg.batch_size)
       IN  IF except_clause(exc, attempt, DefaultMaxRetries) = "retry"
           THEN /\ \E jitter \in Jitters :
                    blog' = BlogSoFar \o <<CallEv(eidx, batch, exc),
                                           SleepEv(wait_time(attempt, jitter))>>
                /\ attempt' = attempt + 1
                /\ UNCHANGED <<epc, ecalls, tlog, embeddings>>
           ELSE LET r == embed_texts_except(exc, embeddings)
                IN  /\ blog' = Append(BlogSoFar, CallEv(eidx, batch, exc))
                    /\ tlog' = Append(tlog, FailedEv(eidx, end_index))
                    /\ embeddings' = r.value
                    /\ attempt' = attempt
                    /\ EmbedTextsOver(r)
    /\ UNCHANGED <<einput, ereq, eidx, embStore>>
    /\ UNCHANGED nonEmbedVars

RateLimited == BackendRaises("RateLimitError")

BackendError == BackendRaises("Exception")

\* POST /embed after embed_texts returned: the uploads, any of which may
\* fail, the n before it staying, and the response
UploadEmbedded ==
    /\ epc = "upload"
    /\ LET ups == EmbeddedUploads(ereq.document_id, ereq.chunks, embeddings)
       IN  \E n \in 0..Len(ups) :
            /\ embStore' = ApplyUploads(embStore, ups, n)
            /\ ecalls' = Append(ecalls,
                    OpRecord(ereq, n < Len(ups),
                             IF n < Len(ups) THEN "HTTPException" ELSE "",
                             <<>>, IF n < Len(ups) THEN 500 ELSE 200, n))
    /\ epc' = "idle"
    /\ UNCHANGED <<einput, ereq, eidx, attempt, embeddings, blog, tlog>>
    /\ UNCHANGED nonEmbedVars

InitEmbed ==
    /\ \/ /\ einput \in EmbedTextInputs
          /\ input = NoDocument
          /\ docs = {}
          /\ usedIds = {}
          /\ store = EmptyStore
       \/ /\ einput = [embedder |-> embedder, texts |-> <<>>]
          /\ input \in EmbedDocInputs
          /\ docs = {ProcessedOf(input, uuid4({}))}
          /\ usedIds = {uuid4({})}
          /\ \E n \in WritesOf(input) :
                store = StoreAfterWrite(EmptyStore, ProcessedOf(input, uuid4({})), n)
    /\ pc = "idle"
    /\ state = InitialState(input)
    /\ tempFiles = {}
    /\ runs = 0
    /\ trace = <<>>
    /\ calls = <<>>
    /\ epc = "idle"
    /\ ereq = NoRequest
    /\ eidx = 0
    /\ attempt = 0
    /\ embeddings = <<>>
    /\ blog = <<>>
    /\ tlog = <<>>
    /\ ecalls = <<>>
    /\ embStore = EmptyStore
    /\ GraphIdle
    /\ SearchIdle
    /\ EnsureIdle

NextEmbed ==
    \/ EmbedTexts
    \/ EmbedDocument
    \/ EmbeddingsCreated
    \/ RateLimited
    \/ BackendError
    \/ UploadEmbedded

SpecEmbed == InitEmbed /\ [][NextEmbed]_vars

----------------------------------------------------------------------------
(* graph-data-api: the Neo4j database and the Cypher the builders run *)

MaxGraphChunks == 3
MaxBuilds == 2

\* content[:5000]
PageContentLimit == 5000

\* the first n characters of a text: t[:n]
RECURSIVE Take(_, _)
Take(t, n) ==
    IF n <= 0 \/ t = <<>> THEN <<>>
    ELSE IF Head(t).n <= n THEN <<Head(t)>> \o Take(Tail(t), n - Head(t).n)
    ELSE <<R(Head(t).ch, n)>>

\* bool(x) of an optional string, an optional int and an optional sequence
\* of characters: None, "" and 0 are false
TruthyStr(o) == o # None /\ Val(o) # ""
TruthyInt(o) == o # None /\ Val(o) # 0
TruthyChars(o) == o # None /\ Val(o) # <<>>

\* names (titles, document ids) are numbers; 0 is the empty string
TruthyName(o) == o # None /\ Val(o) # 0

NoRfp == [kind |-> "", location |-> "", yy |-> 0, document_id |-> 0]

\* f"{location} RFP {str(year)[-2:]}"
LocationRfp(location, year) ==
    [kind |-> "location", location |-> location, yy |-> year % 100,
     document_id |-> 0]

\* f"RFP {document_id}"
DocumentRfp(document_id) ==
    [kind |-> "document", location |-> "", yy |-> 0, document_id |-> document_id]

\* "Unknown RFP"
UnknownRfp == [kind |-> "unknown", location |-> "", yy |-> 0, document_id |-> 0]

NoSource == [doc_name |-> 0, ext |-> ""]

\* f"{doc_name}.pdf", f"{doc_name}.docx"
SourceOf(doc_name, ext) == [doc_name |-> doc_name, ext |-> ext]

\* the properties a MERGE or MATCH pattern can name, with the values a
\* pattern that does not name them leaves
BlankKey ==
    [name |-> "", rfp |-> NoRfp, year |-> 0, doc_name |-> 0,
     source |-> NoSource, doc_type |-> <<>>, page_number |-> 0,
     chunk_id |-> <<0, 0>>]

\* the properties SET assigns
BlankData ==
    [content |-> <<>>, text |-> <<>>, embedding |-> <<>>, doc_name |-> 0,
     page_number |-> 0, chunk_index |-> -1, index |-> -1]

\* (v:label {f: key[f] for f in fields})
Pattern(label, fields, key) == [label |-> label, fields |-> fields, key |-> key]

\* the nodes a pattern matches
Matches(db, pat) ==
    {n \in db.nodes :
        /\ n.label = pat.label
        /\ \A f \in pat.fields : n.key[f] = pat.key[f]}

\* the keys of a pattern, as properties of the node MERGE creates
KeyOf(pat) ==
    [f \in DOMAIN BlankKey |-> IF f \in pat.fields THEN pat.key[f] ELSE BlankKey[f]]

\* variant: CREATE in place of MERGE, a node is added whether or not one
\* matches
merge_node_create(db, pat, assigned, data) ==
    [db EXCEPT !.nodes = @ \cup
        {[id |-> Cardinality(db.nodes) + 1, label |-> pat.label,
          key |-> KeyOf(pat), data |-> data]}]

\* MERGE (v:label {...}) [SET v.p = ...]: the nodes that match are kept (and
\* assigned to); when none matches one node is created
merge_node(db, pat, assigned, data) ==
    IF Matches(db, pat) # {}
    THEN [db EXCEPT !.nodes =
            {IF n \in Matches(db, pat) /\ assigned
                THEN [n EXCEPT !.data = data] ELSE n : n \in db.nodes}]
    ELSE [db EXCEPT !.nodes = @ \cup
            {[id |-> Cardinality(db.nodes) + 1, label |-> pat.label,
              key |-> KeyOf(pat), data |-> data]}]

\* MERGE (a)-[:type]->(b) for every row the MATCH clauses give: a
\* relationship is created only between nodes that have none of the type
merge_relationship(db, type, as, bs) ==
    [db EXCEPT !.rels = @ \cup
        {[type |-> type, from |-> a.id, to |-> b.id, copy |-> 1] :
            <<a, b>> \in as \X bs}]

\* session.run of one statement of the builders
\*   merge:  MERGE of a node, with or without SET
\*   link:   MATCH of the patterns, then MERGE of each relationship
\*           <<i, type, j>> from the i-th matched node to the j-th
RECURSIVE MergeLinks(_, _, _)
MergeLinks(db, pats, links) ==
    IF links = <<>> THEN db
    ELSE MergeLinks(
            merge_relationship(db, Head(links)[2],
                               Matches(db, pats[Head(links)[1]]),
                               Matches(db, pats[Head(links)[3]])),
            pats, Tail(links))

session_run(db, stmt) ==
    IF stmt.q = "merge"
    THEN merge_node(db, stmt.pat, stmt.assigned, stmt.data)
    ELSE IF \E i \in 1..Len(stmt.pats) : Matches(db, stmt.pats[i]) = {}
         THEN db
         ELSE MergeLinks(db, stmt.pats, stmt.links)

MergeStmt(pat, assigned, data) ==
    [q |-> "merge", pat |-> pat, assigned |-> assigned, data |-> data]

LinkStmt(pats, links) == [q |-> "link", pats |-> pats, links |-> links]

\* the database after the first n statements have run
RECURSIVE ApplyStatements(_, _, _)
ApplyStatements(db, stmts, n) ==
    IF n = 0 \/ stmts = <<>> THEN db
    ELSE ApplyStatements(session_run(db, Head(stmts)), Tail(stmts), n - 1)

----------------------------------------------------------------------------
(* graph-data-api: RequestGraphBuilder and ResponseGraphBuilder *)

LocationPat(location_name) ==
    Pattern("Location", {"name"}, [BlankKey EXCEPT !.name = location_name])

\* str(year)
YearPat(year) == Pattern("Year", {"year"}, [BlankKey EXCEPT !.year = year])

RfpPat(rfp) == Pattern("Rfp", {"rfp"}, [BlankKey EXCEPT !.rfp = rfp])

DocumentPat(doc_name, source, doc_type) ==
    Pattern("Document", {"doc_name", "source", "doc_type"},
            [BlankKey EXCEPT !.doc_name = doc_name, !.source = source,
                             !.doc_type = doc_type])

\* (d:Document {name: $doc_name})
DocumentNamePat(doc_name) ==
    Pattern("Document", {"doc_name"}, [BlankKey EXCEPT !.doc_name = doc_name])

PagePat(doc_name, page_number) ==
    Pattern("Page", {"doc_name", "page_number"},
            [BlankKey EXCEPT !.doc_name = doc_name, !.page_number = page_number])

ChunkPat(label, chunk_id) ==
    Pattern(label, {"chunk_id"}, [BlankKey EXCEPT !.chunk_id = chunk_id])

create_location_node(location_name) ==
    <<MergeStmt(LocationPat(location_name), FALSE, BlankData)>>

create_year_node(year) == <<MergeStmt(YearPat(year), FALSE, BlankData)>>

create_rfp_year_node(rfp_year) == <<MergeStmt(RfpPat(rfp_year), FALSE, BlankData)>>

create_rfp_year_location_relationships(location_name, year, rfp_year) ==
    <<LinkStmt(<<LocationPat(location_name), RfpPat(rfp_year), YearPat(year)>>,
               <<<<1, "HAS_RFP", 2>>, <<2, "IS_YEAR", 3>>,
                 <<2, "HAS_LOCATION", 1>>>>)>>

\* the same two statements in both builders
create_document_node(doc_name, source, doc_type, rfp) ==
    <<MergeStmt(DocumentPat(doc_name, source, doc_type), FALSE, BlankData),
      LinkStmt(<<RfpPat(rfp), DocumentNamePat(doc_name)>>,
               <<<<1, "HAS_DOCUMENT", 2>>, <<2, "HAS_RFP", 1>>>>)>>

\* set(chunk.page_number for chunk in chunks), iterated in ascending order
PagesSet(chunks) == {chunks[i].page_number : i \in 1..Len(chunks)}

RECURSIVE Ascending(_)
Ascending(S) ==
    IF S = {} THEN <<>>
    ELSE LET m == CHOOSE x \in S : \A y \in S : x <= y
         IN  <<m>> \o Ascending(S \ {m})

\* [chunk.content for chunk in chunks if chunk.page_number == page_number]
PageChunkContents(chunks, page_number) ==
    LET on == SelectSeq(chunks, LAMBDA c : c.page_number = page_number)
    IN  [i \in 1..Len(on) |-> on[i].content]

\* variant: the joined content is stored whole
PageContentWhole(chunks, page_number) ==
    JoinSp(PageChunkContents(chunks, page_number))

\* content = " ".join(page_chunks); content[:5000]
PageContent(chunks, page_number) ==
    Take(JoinSp(PageChunkContents(chunks, page_number)), PageContentLimit)

RECURSIVE PageStatements(_, _, _)
PageStatements(doc_name, chunks, pages) ==
    IF pages = <<>> THEN <<>>
    ELSE <<MergeStmt(PagePat(doc_name, Head(pages)), TRUE,
                     [BlankData EXCEPT
                        !.content = PageContent(chunks, Head(pages))]),
           LinkStmt(<<DocumentNamePat(doc_name), PagePat(doc_name, Head(pages))>>,
                    <<<<1, "HAS_PAGE", 2>>, <<2, "HAS_DOCUMENT", 1>>>>)>>
         \o PageStatements(doc_name, chunks, Tail(pages))

\* the same statements in both builders
create_page_nodes(doc_name, chunks) ==
    PageStatements(doc_name, chunks, Ascending(PagesSet(chunks)))

ChunkLink(label, doc_name, chunk) ==
    LinkStmt(<<PagePat(doc_name, chunk.page_number), ChunkPat(label, chunk.chunk_id)>>,
             <<<<1, "HAS_CHUNK", 2>>, <<2, "HAS_PAGE", 1>>>>)

RECURSIVE create_chunk_nodes(_, _)
create_chunk_nodes(doc_name, chunks) ==
    IF chunks = <<>> THEN <<>>
    ELSE LET chunk == Head(chunks)
         IN  <<MergeStmt(ChunkPat("RequestChunk", chunk.chunk_id), TRUE,
                         [BlankData EXCEPT
                            !.text = chunk.content,
                            !.embedding = chunk.embedding,
                            !.doc_name = doc_name,
                            !.page_number = chunk.page_number,
                            !.chunk_index = chunk.chunk_index]),
               ChunkLink("RequestChunk", doc_name, chunk)>>
             \o create_chunk_nodes(doc_name, Tail(chunks))

RECURSIVE create_response_chunk_nodes(_, _)
create_response_chunk_nodes(doc_name, chunks) ==
    IF chunks = <<>> THEN <<>>
    ELSE LET chunk == Head(chunks)
         IN  <<MergeStmt(ChunkPat("ResponseChunk", chunk.chunk_id), TRUE,
                         [BlankData EXCEPT
                            !.index = chunk.chunk_index,
                            !.text = chunk.content,
                            !.embedding = chunk.embedding,
                            !.doc_name = doc_name,
                            !.page_number = chunk.page_number]),
               ChunkLink("ResponseChunk", doc_name, chunk)>>
             \o create_response_chunk_nodes(doc_name, Tail(chunks))

\* first_chunk.metadata.title or document_id
DocName(document_id, first_chunk) ==
    IF TruthyName(first_chunk.metadata.title)
    THEN Val(first_chunk.metadata.title) ELSE document_id

\* RequestGraphBuilder.build_graph: rfp_year
RequestRfp(document_id, first_chunk) ==
    LET location == first_chunk.metadata.location
        year == first_chunk.metadata.year
    IN  IF TruthyStr(location) /\ TruthyInt(year)
        THEN LocationRfp(Val(location), Val(year))
        ELSE DocumentRfp(document_id)

\* RequestGraphBuilder.build_graph: the statements it runs, in order
RequestStatements(document_id, chunks) ==
    LET first_chunk == chunks[1]
        location == first_chunk.metadata.location
        year == first_chunk.metadata.year
        doc_name == DocName(document_id, first_chunk)
        doc_type == Val(first_chunk.metadata.doc_type)
        rfp_year == RequestRfp(document_id, first_chunk)
    IN  (IF TruthyStr(location) THEN create_location_node(Val(location)) ELSE <<>>)
        \o (IF TruthyInt(year) THEN create_year_node(Val(year)) ELSE <<>>)
        \o create_rfp_year_node(rfp_year)
        \o (IF TruthyStr(location) /\ TruthyInt(year)
            THEN create_rfp_year_location_relationships(
                    Val(location), Val(year), rfp_year)
            ELSE <<>>)
        \o create_document_node(doc_name, SourceOf(doc_name, ".pdf"), doc_type,
                                rfp_year)
        \o create_page_nodes(doc_name, chunks)
        \o create_chunk_nodes(doc_name, chunks)

\* RequestGraphBuilder.build_graph: nodes_created
RequestNodesCreated(chunks) ==
    LET first_chunk == chunks[1]
    IN  (IF TruthyStr(first_chunk.metadata.location) THEN 1 ELSE 0)
        + (IF TruthyInt(first_chunk.metadata.year) THEN 1 ELSE 0)
        + 1 + 1 + Cardinality(PagesSet(chunks)) + Len(chunks)

\* ResponseGraphBuilder.build_graph: rfp_name, given or derived
ResponseRfp(document_id, first_chunk, rfp_name) ==
    LET location == first_chunk.metadata.location
        year == first_chunk.metadata.year
    IN  IF rfp_name # None THEN Val(rfp_name)
        ELSE IF TruthyStr(location) /\ TruthyInt(year)
             THEN LocationRfp(Val(location), Val(year))
             ELSE UnknownRfp

\* variant: the response builder runs the statements of the request builder
ResponseStatementsAsRequest(document_id, chunks, rfp_name) ==
    RequestStatements(document_id, chunks)

\* ResponseGraphBuilder.build_graph: the statements it runs, in order
ResponseStatements(document_id, chunks, rfp_name) ==
    LET first_chunk == chunks[1]
        doc_name == DocName(document_id, first_chunk)
        doc_type == Val(first_chunk.metadata.doc_type)
        source == IF TruthyStr(first_chunk.metadata.source)
                  THEN SourceOf(0, Val(first_chunk.metadata.source))
                  ELSE SourceOf(doc_name, ".docx")
        rfp == ResponseRfp(document_id, first_chunk, rfp_name)
    IN  create_document_node(doc_name, source, doc_type, rfp)
        \o create_page_nodes(doc_name, chunks)
        \o create_response_chunk_nodes(doc_name, chunks)

\* ResponseGraphBuilder.build_graph: nodes_created
ResponseNodesCreated(chunks) == 1 + Cardinality(PagesSet(chunks)) + Len(chunks)

----------------------------------------------------------------------------
(* graph-data-api: the workflow of graph_workflow.py *)

REQUEST == <<"r", "e", "q", "u", "e", "s", "t">>
RESPONSE == <<"r", "e", "s", "p", "o", "n", "s", "e">>

\* determine_document_type
determine_document_type(st) ==
    IF st.chunks = <<>>
    THEN [st EXCEPT !.error = Some("No chunks provided")]
    ELSE LET first_chunk == st.chunks[1]
             doc_type == first_chunk.metadata.doc_type
         IN  IF ~TruthyChars(doc_type)
             THEN [st EXCEPT
                     !.error = Some("doc_type not found in chunk metadata")]
             ELSE [st EXCEPT !.doc_type = Val(doc_type),
                             !.location = first_chunk.metadata.location,
                             !.year = first_chunk.metadata.year]

\* variant: a doc_type that is neither "request" nor "response" goes to the
\* response builder
route_by_document_type_default_response(st) ==
    IF TruthyStr(st.error) THEN "END"
    ELSE IF lower(st.doc_type) = REQUEST THEN "build_request_graph"
    ELSE "build_response_graph"

\* route_by_document_type, with the edge each label is mapped to
route_by_document_type(st) ==
    IF TruthyStr(st.error) THEN "END"
    ELSE IF lower(st.doc_type) = REQUEST THEN "build_request_graph"
    ELSE IF lower(st.doc_type) = RESPONSE THEN "build_response_graph"
    ELSE "build_request_graph"

\* process_document_chunks: initial_state
InitialWorkflowState(in) ==
    [document_id |-> in.document_id, doc_type |-> <<>>, location |-> None,
     year |-> None, chunks |-> in.chunks, nodes_created |-> 0, error |-> None]

\* process_document_chunks: what it returns, with the builder nodes the run
\* entered and, for a run without error, the database it left
WorkflowResult(st, entered, db) ==
    [document_id |-> st.document_id, doc_type |-> st.doc_type,
     total_chunks |-> Len(st.chunks), nodes_created |-> st.nodes_created,
     error |-> st.error, entered |-> entered,
     db |-> IF st.error = None THEN db ELSE EmptyGraph]

\* build_response_graph: rfp_name
WorkflowRfpName(st) ==
    IF TruthyStr(st.location) /\ TruthyInt(st.year)
    THEN Some(LocationRfp(Val(st.location), Val(st.year)))
    ELSE None

\* inputs: the text of the k-th chunk
GraphChunkText(k) ==
    IF k = 1 THEN <<R("x", 3000)>>
    ELSE IF k = 2 THEN <<R("x", 2500)>>
    ELSE <<R("x", 5100), SP, R("x", k)>>

\* inputs: the page of the k-th chunk
GraphChunkPage(k) == IF k <= 2 THEN 1 ELSE k - 1

GraphMetadata(doc_type, location, year, source, title) ==
    [doc_type |-> doc_type, location |-> location, year |-> year,
     title |-> title, source |-> source]

GraphChunk(document_id, k, metadata) ==
    [chunk_id |-> <<document_id, k - 1>>, chunk_index |-> k - 1,
     page_number |-> GraphChunkPage(k), content |-> GraphChunkText(k),
     metadata |-> metadata,
     embedding |-> <<Emb(GraphChunkText(k))>>]

\* inputs: values of doc_type in the metadata of a chunk
GraphDocTypes ==
    {None, Some(<<>>), Some(REQUEST), Some(RESPONSE),
     Some(<<"R", "E", "S", "P", "O", "N", "S", "E">>),
     Some(<<"R", "e", "q", "u", "e", "s", "t">>),
     Some(<<"g", "e", "n", "e", "r", "a", "l">>)}

\* inputs: (location, year) of the metadata
GraphPlaces == {<<None, None>>, <<Some("TX"), None>>, <<Some("TX"), Some(2023)>>}

GraphDocument(document_id, n, first, later, place, source, title) ==
    [document_id |-> document_id,
     chunks |->
        [k \in 1..n |->
            GraphChunk(document_id, k,
                       GraphMetadata(IF k = 1 THEN first ELSE later,
                                     place[1], place[2], source, title))]]

\* inputs: a title that the chunks of two documents carry
SharedTitle == 7

GraphInputs ==
    {GraphDocument(1, n, first, later, place, source, title) :
        n \in 0..MaxGraphChunks, first \in GraphDocTypes,
        later \in {Some(REQUEST), Some(RESPONSE)}, place \in GraphPlaces,
        source \in {None}, title \in {None}}

\* inputs: documents whose chunks carry the shared title
TitledInputs ==
    {GraphDocument(1, n, first, first, <<Some("TX"), Some(2023)>>, None,
                   Some(SharedTitle)) :
        n \in 1..MaxGraphChunks, first \in {Some(REQUEST), Some(RESPONSE)}}

\* the request document an earlier run may have put into the database
EarlierRequest ==
    GraphDocument(2, 1, Some(REQUEST), Some(REQUEST),
                  <<Some("TX"), Some(2023)>>, None, None)

\* the same document, whose chunks carry the shared title
EarlierTitled ==
    GraphDocument(2, 1, Some(REQUEST), Some(REQUEST),
                  <<Some("TX"), Some(2023)>>, None, Some(SharedTitle))

GraphAfter(in) ==
    LET stmts == RequestStatements(in.document_id, in.chunks)
    IN  ApplyStatements(EmptyGraph, stmts, Len(stmts))

\* process_document_chunks: the workflow is invoked
ProcessDocumentChunks ==
    /\ gpc \in {"idle", "END"}
    /\ Len(gcalls) < MaxBuilds
    /\ gstate' = InitialWorkflowState(ginput)
    /\ gpc' = "determine_type"
    /\ gtrace' = <<>>
    /\ UNCHANGED <<ginput, gdb, gcalls, gdrivers>>
    /\ UNCHANGED nonGraphVars

\* node determine_type and the conditional edge after it
DetermineType ==
    /\ gpc = "determine_type"
    /\ gstate' = determine_document_type(gstate)
    /\ gpc' = route_by_document_type(gstate')
    /\ gcalls' = IF gpc' = "END"
                 THEN Append(gcalls, WorkflowResult(gstate', gtrace, gdb))
                 ELSE gcalls
    /\ UNCHANGED <<ginput, gdb, gtrace, gdrivers>>
    /\ UNCHANGED nonGraphVars

\* variant: the driver is closed when build_graph returns
builder_closed_on_return(raised) == ~raised

\* try: builder.build_graph(...) finally: builder.close()
builder_closed(raised) == TRUE

\* a builder node: the builder opens its driver, the statements run one by
\* one, and the first that raises ends the build with state["error"] set
\* (n = Len(stmts): none raises); the driver is closed on the way out
BuildNode(node, stmts, nodes_created) ==
    /\ gpc = node
    /\ \E n \in 0..Len(stmts) :
        /\ gdb' = ApplyStatements(gdb, stmts, n)
        /\ gstate' = IF n = Len(stmts)
                     THEN [gstate EXCEPT !.nodes_created = nodes_created]
                     ELSE [gstate EXCEPT !.error = Some("ServiceUnavailable")]
        /\ gdrivers' = IF builder_closed(n < Len(stmts))
                       THEN gdrivers ELSE gdrivers + 1
    /\ gtrace' = Append(gtrace, node)
    /\ gpc' = "END"
    /\ gcalls' = Append(gcalls, WorkflowResult(gstate', gtrace', gdb'))
    /\ UNCHANGED ginput
    /\ UNCHANGED nonGraphVars

\* node build_request_graph
BuildRequestGraph ==
    BuildNode("build_request_graph",
              RequestStatements(gstate.document_id, gstate.chunks),
              RequestNodesCreated(gstate.chunks))

\* node build_response_graph
BuildResponseGraph ==
    BuildNode("build_response_graph",
              ResponseStatements(gstate.document_id, gstate.chunks,
                                 WorkflowRfpName(gstate)),
              ResponseNodesCreated(gstate.chunks))

InitGraph ==
    /\ \/ /\ ginput \in GraphInputs
          /\ gdb \in {EmptyGraph, GraphAfter(EarlierRequest)}
       \/ /\ ginput \in TitledInputs
          /\ gdb = GraphAfter(EarlierTitled)
    /\ gpc = "idle"
    /\ gstate = NoWorkflowState
    /\ gtrace = <<>>
    /\ gcalls = <<>>
    /\ gdrivers = 0
    /\ input = NoDocument
    /\ pc = "idle"
    /\ state = InitialState(input)
    /\ tempFiles = {}
    /\ store = EmptyStore
    /\ usedIds = {}
    /\ runs = 0
    /\ trace = <<>>
    /\ calls = <<>>
    /\ docs = {}
    /\ EmbedIdle
    /\ SearchIdle
    /\ EnsureIdle

NextGraph ==
    \/ ProcessDocumentChunks
    \/ DetermineType
    \/ BuildRequestGraph
    \/ BuildResponseGraph

SpecGraph == InitGraph /\ [][NextGraph]_vars

(* search-data-api: the index service, ensure_search_index_exists,        *)
(* upload_chunks_to_search_index and POST /upload; POST /build-graph of the *)
(* graph-data-api, which reads the same container                           *)

MaxRequests == 2
MaxSearchBatches == 2
MaxArtifacts == 2

\* batch_size = 100
SearchBatchSize == 100

PyList(v) == [type |-> "list", v |-> v]

\* the decimal digits of a natural number, as str(n) has them
RECURSIVE Digits(_)
Digits(n) == IF n < 10 THEN <<n>> ELSE Append(Digits(n \div 10), n % 10)

\* "chunk-{a}.json" < "chunk-{b}.json" as strings: "." sorts before a digit
RECURSIVE LexLess(_, _)
LexLess(a, b) ==
    IF a = <<>> THEN b # <<>>
    ELSE IF b = <<>> THEN FALSE
    ELSE IF Head(a) # Head(b) THEN Head(a) < Head(b)
    ELSE LexLess(Tail(a), Tail(b))

\* container_client.list_blobs(name_starts_with=f"{document_id}/"): the names
\* with the prefix that end in ".json", in the order of the names
list_embedded_blobs(st, document_id) ==
    LET S == {b \in DOMAIN st : b[1] = document_id}
    IN  [k \in 1..Cardinality(S) |->
            CHOOSE b \in S :
                Cardinality({c \in S : LexLess(Digits(c[3]), Digits(b[3]))}) = k - 1]

\* variant: the not-found outcome is wrapped like every other exception
download_embedded_chunks_wrapped(st, document_id, reachable) ==
    IF ~reachable \/ list_embedded_blobs(st, document_id) = <<>>
    THEN [status |-> 500, chunks |-> <<>>]
    ELSE [status |-> 200,
          chunks |-> [k \in 1..Len(list_embedded_blobs(st, document_id)) |->
                         st[list_embedded_blobs(st, document_id)[k]]]]

\* download_embedded_chunks_from_blob_storage, the same in both services;
\* reachable: the storage account answers the listing and the downloads
download_embedded_chunks_from_blob_storage(st, document_id, reachable) ==
    LET names == list_embedded_blobs(st, document_id)
    IN  IF ~reachable THEN [status |-> 500, chunks |-> <<>>]
        ELSE IF Len(names) = 0 THEN [status |-> 404, chunks |-> <<>>]
        ELSE [status |-> 200, chunks |-> [k \in 1..Len(names) |-> st[names[k]]]]

\* calls of the search service and of the key vault that fail for a reason
\* of their own (authorization, network), whatever the state of the service
IndexFaults == {{}, {"key_vault"}, {"get_index"}, {"create_index"}}

\* variant: the index is created without the existence check
ensure_search_index_exists_unchecked(svc, index_name, faults) ==
    IF "key_vault" \in faults \/ "create_index" \in faults \/ index_name \in DOMAIN svc
    THEN [raised |-> TRUE, status |-> 500, created |-> FALSE, indexes |-> svc]
    ELSE [raised |-> FALSE, status |-> 0, created |-> TRUE,
          indexes |-> [n \in DOMAIN svc \cup {index_name} |->
                          IF n = index_name THEN <<>> ELSE svc[n]]]

\* ensure_search_index_exists: get_index answers when the index exists and
\* the call does not fail; every exception of get_index leads to create_index,
\* which raises when it fails or when the index exists
ensure_search_index_exists(svc, index_name, faults) ==
    IF "key_vault" \in faults
    THEN [raised |-> TRUE, status |-> 500, created |-> FALSE, indexes |-> svc]
    ELSE IF "get_index" \notin faults /\ index_name \in DOMAIN svc
    THEN [raised |-> FALSE, status |-> 0, created |-> FALSE, indexes |-> svc]
    ELSE IF "create_index" \in faults \/ index_name \in DOMAIN svc
    THEN [raised |-> TRUE, status |-> 500, created |-> FALSE, indexes |-> svc]
    ELSE [raised |-> FALSE, status |-> 0, created |-> TRUE,
          indexes |-> [n \in DOMAIN svc \cup {index_name} |->
                          IF n = index_name THEN <<>> ELSE svc[n]]]

\* upload_chunks_to_search_index: document
SearchDocument(chunk, group_access_list, create_date) ==
    [id |-> chunk.chunk_id,
     document_id |-> chunk.metadata.document_id,
     create_date |-> create_date,
     page_number |-> chunk.page_number,
     location |-> chunk.metadata.location,
     year |-> chunk.metadata.year,
     doc_type |-> chunk.metadata.doc_type,
     chunk_index |-> chunk.chunk_index,
     content |-> chunk.content,
     vector |-> chunk.embedding,
     group_id |-> PyStr(group_access_list[1])]

\* upload_chunks_to_search_index: documents
SearchDocuments(chunks, group_access_list, create_date) ==
    [k \in 1..Len(chunks) |-> SearchDocument(chunks[k], group_access_list, create_date)]

\* variant: the documents of a batch are added to the index
upload_documents_appending(index, batch, failed) ==
    index \o SelectSeq([p \in 1..Len(batch) |->
                            IF p \in failed THEN None ELSE batch[p]],
                       LAMBDA d : d # None)

\* variant: a batch replaces the content of the index
upload_documents_replacing(index, batch, failed) ==
    SelectSeq(batch, LAMBDA d : TRUE)

\* search_client.upload_documents(documents=batch) when the request is
\* answered: the documents at the positions in failed are reported failed
\* and not stored, the others are stored under their keys, the last of a key
\* in the batch winning
upload_documents(index, batch, failed) ==
    LET kept == {p \in 1..Len(batch) : p \notin failed}
        last(p) == \A q \in kept : q > p => batch[q].id # batch[p].id
        new == SelectSeq([p \in 1..Len(batch) |->
                              [d |-> batch[p], keep |-> p \in kept /\ last(p)]],
                         LAMBDA x : x.keep)
        old == SelectSeq(index,
                         LAMBDA d : \A p \in kept : batch[p].id # d.id)
    IN  old \o [p \in 1..Len(new) |-> new[p].d]

\* inputs: which documents of a batch the service reports as failed
FailPatterns(batch) == {{}, {1}, 1..Len(batch)}

\* variant: a batch with a failed document ends the upload with an error
after_batch_abort(failed) == IF failed = {} THEN "next" ELSE "raise"

\* for item in result: if not item.succeeded: logger.error(...)
after_batch(failed) == "next"

\* events of slog
IndexCall(call, from, to, failed, faults, raised) ==
    [call |-> call, from |-> from, to |-> to, failed |-> failed,
     faults |-> faults, raised |-> raised]

\* how an operation of the search-data-api ended; storage: whether the
\* storage account answered
SearchOutcome(req, raised, status, storage, log) ==
    [op |-> req.op, document_id |-> req.document_id, index_name |-> req.index_name,
     total_chunks |-> Len(req.chunks), raised |-> raised, status |-> status,
     storage |-> storage, log |-> log]

\* requests of the services that have been made
Requests ==
    Len(scalls) + Len(gcalls) + Len(gresp) + Len(ecalls)
    + (IF spc = "idle" THEN 0 ELSE 1)
    + (IF gpc \in {"idle", "END"} THEN 0 ELSE 1)
    + (IF epc = "idle" THEN 0 ELSE 1)

\* datetime.utcnow(): later for every request made
utcnow == Requests

\* inputs: the embedded chunk the embedding stage wrote for chunk k
Artifact(document_id, k, doc_type, place) ==
    [chunk_id |-> <<document_id, k - 1>>, chunk_index |-> k - 1,
     page_number |-> GraphChunkPage(k), content |-> GraphChunkText(k),
     metadata |-> [doc_type |-> doc_type, location |-> place[1],
                   year |-> place[2], title |-> None, source |-> None,
                   document_id |-> Some(document_id)],
     embedding |-> <<Emb(GraphChunkText(k))>>]

\* inputs: the embedding container with the n embedded chunks of a document
ArtifactStore(document_id, n, doc_type, place) ==
    [b \in {<<document_id, "chunk-", k - 1>> : k \in 1..n} |->
        Artifact(document_id, b[3] + 1, doc_type, place)]

\* inputs: a document of more than 10 chunks
ManyArtifacts == 11

\* inputs: the chunk lists of direct calls
SearchChunks(n) ==
    [k \in 1..n |->
        [Artifact(3, k, Some(REQUEST), <<Some("TX"), Some(2023)>>)
            EXCEPT !.content = GraphChunkText(3), !.embedding = <<Emb(k)>>]]

SearchLengths ==
    {k * SearchBatchSize + r : k \in 0..(MaxSearchBatches - 1), r \in {0, 1}}

\* inputs: GROUP_ACCESS_LIST, which AzureSearchConfig requires to be non-empty
GroupAccessLists ==
    {<<"group-A">>, <<"group-A", "group-B">>, <<"group-B", "group-A">>}

\* inputs: the index an earlier upload of another document left
SeededIndexes(index_name) ==
    [n \in {index_name} |->
        SearchDocuments(<<Artifact(2, 1, Some(REQUEST), <<None, None>>)>>,
                        <<"group-A">>, 0)]

\* inputs: document ids of the requests: with and without embedded chunks
ProjectionIds == {1, 2}

searchCallVars == <<sinput, spc, sreq, sdocs, sidx, indexes, slog, scalls>>

\* POST /build-graph up to the workflow: the download, and
\* process_document_chunks invoking the workflow on the chunks
BuildGraph ==
    /\ gpc \in {"idle", "END"}
    /\ Requests < MaxRequests
    /\ \E document_id \in ProjectionIds, reachable \in BOOLEAN :
        LET dl == download_embedded_chunks_from_blob_storage(embStore, document_id,
                                                             reachable)
            in == [document_id |-> document_id, chunks |-> dl.chunks]
        IN  IF dl.status = 200
            THEN /\ ginput' = in
                 /\ gstate' = InitialWorkflowState(in)
                 /\ gpc' = "determine_type"
                 /\ gtrace' = <<>>
                 /\ gresp' = gresp
            ELSE /\ gresp' = Append(gresp,
                        [document_id |-> document_id, status |-> dl.status,
                         storage |-> reachable])
                 /\ UNCHANGED <<ginput, gstate, gpc, gtrace>>
    /\ UNCHANGED <<gdb, gcalls, gdrivers>>
    /\ UNCHANGED searchCallVars
    /\ UNCHANGED <<chunkVars, embedVars, ensureVars>>

\* ensure_search_index_exists(index_name) is called directly
CallEnsure ==
    /\ spc = "idle"
    /\ Requests < MaxRequests
    /\ sreq' = [op |-> "ensure", document_id |-> 0,
                index_name |-> sinput.index_name, chunks |-> <<>>,
                group_access_list |-> sinput.group_access_list]
    /\ spc' = "ensure"
    /\ slog' = <<>>
    /\ UNCHANGED <<gresp, sinput, sdocs, sidx, indexes, scalls>>
    /\ UNCHANGED nonSearchVars

\* upload_chunks_to_search_index(chunks, group_access_list, index_name) is
\* called directly
CallUploadChunks ==
    /\ spc = "idle"
    /\ Requests < MaxRequests
    /\ sreq' = [op |-> "upload_chunks", document_id |-> 0,
                index_name |-> sinput.index_name, chunks |-> sinput.chunks,
                group_access_list |-> sinput.group_access_list]
    /\ spc' = "prepare"
    /\ slog' = <<>>
    /\ UNCHANGED <<gresp, sinput, sdocs, sidx, indexes, scalls>>
    /\ UNCHANGED nonSearchVars

\* POST /upload up to ensure_search_index_exists: the download
UploadDocument ==
    /\ spc = "idle"
    /\ Requests < MaxRequests
    /\ \E document_id \in ProjectionIds, reachable \in BOOLEAN :
        LET dl == download_embedded_chunks_from_blob_storage(embStore, document_id,
                                                             reachable)
            req == [op |-> "upload", document_id |-> document_id,
                    index_name |-> sinput.index_name, chunks |-> dl.chunks,
                    group_access_list |-> sinput.group_access_list]
        IN  /\ sreq' = req
            /\ IF dl.status = 200
               THEN /\ spc' = "ensure"
                    /\ scalls' = scalls
               ELSE /\ spc' = "idle"
                    /\ scalls' = Append(scalls,
                            SearchOutcome(req, TRUE, dl.status, reachable, <<>>))
    /\ slog' = <<>>
    /\ UNCHANGED <<gresp, sinput, sdocs, sidx, indexes>>
    /\ UNCHANGED nonSearchVars

\* ensure_search_index_exists, called directly or by /upload
EnsureSearchIndexExists ==
    /\ spc = "ensure"
    /\ \E faults \in IndexFaults :
        LET r == ensure_search_index_exists(indexes, sreq.index_name, faults)
            log == Append(slog, IndexCall("ensure", 0, 0, {}, faults, r.raised))
        IN  /\ indexes' = r.indexes
            /\ slog' = log
            /\ IF r.raised \/ sreq.op = "ensure"
               THEN /\ spc' = "idle"
                    /\ scalls' = Append(scalls,
                            SearchOutcome(sreq, r.raised, r.status, TRUE, log))
               ELSE /\ spc' = "prepare"
                    /\ scalls' = scalls
    /\ UNCHANGED <<gresp, sinput, sreq, sdocs, sidx>>
    /\ UNCHANGED nonSearchVars

\* the operation in progress returns: /upload answers 200
SearchReturns(log) ==
    /\ spc' = "idle"
    /\ scalls' = Append(scalls,
            SearchOutcome(sreq, FALSE, IF sreq.op = "upload" THEN 200 ELSE 0,
                          TRUE, log))

\* the operation in progress raises: HTTPException(500)
SearchRaises(log) ==
    /\ spc' = "idle"
    /\ scalls' = Append(scalls, SearchOutcome(sreq, TRUE, 500, TRUE, log))

\* upload_chunks_to_search_index up to the first batch: the admin key and
\* the documents
PrepareDocuments ==
    /\ spc = "prepare"
    /\ \E answered \in BOOLEAN :
        IF ~answered
        THEN /\ slog' = Append(slog, IndexCall("get_search_admin_key", 0, 0, {},
                                               {"key_vault"}, TRUE))
             /\ SearchRaises(slog')
             /\ UNCHANGED <<sdocs, sidx>>
        ELSE /\ sdocs' = SearchDocuments(sreq.chunks, sreq.group_access_list, utcnow)
             /\ sidx' = 0
             /\ slog' = slog
             /\ IF sreq.chunks = <<>>
                THEN SearchReturns(slog)
                ELSE spc' = "batch" /\ scalls' = scalls
    /\ UNCHANGED <<gresp, sinput, sreq, indexes>>
    /\ UNCHANGED nonSearchVars

\* one turn of the batch loop: upload_documents raises (the request fails or
\* the index does not exist), or answers with a result for every document
UploadBatch ==
    /\ spc = "batch"
    /\ LET batch == Batch(sdocs, sidx, SearchBatchSize)
           to == Min(sidx + SearchBatchSize, Len(sdocs))
       IN  \/ /\ slog' = Append(slog, IndexCall("upload_documents", sidx, to, {},
                                                {"upload_documents"}, TRUE))
              /\ SearchRaises(slog')
              /\ UNCHANGED <<indexes, sidx>>
           \/ /\ sreq.index_name \in DOMAIN indexes
              /\ \E failed \in FailPatterns(batch) :
                    /\ indexes' = [indexes EXCEPT ![sreq.index_name] =
                                      upload_documents(@, batch, failed)]
                    /\ slog' = Append(slog, IndexCall("upload_documents", sidx, to,
                                                      failed, {}, FALSE))
                    /\ IF after_batch(failed) = "raise"
                       THEN SearchRaises(slog') /\ sidx' = sidx
                       ELSE /\ sidx' = sidx + SearchBatchSize
                            /\ IF sidx' < Len(sdocs)
                               THEN spc' = "batch" /\ scalls' = scalls
                               ELSE SearchReturns(slog')
    /\ UNCHANGED <<gresp, sinput, sreq, sdocs>>
    /\ UNCHANGED nonSearchVars

\* the services at rest, with the index an earlier upload may have left
ServicesAtRest ==
    /\ indexes = IF sinput.seeded THEN SeededIndexes(sinput.index_name) ELSE NoIndexes
    /\ gresp = <<>>
    /\ spc = "idle"
    /\ sreq = NoSearchRequest
    /\ sdocs = <<>>
    /\ sidx = 0
    /\ slog = <<>>
    /\ scalls = <<>>
    /\ GraphIdle
    /\ EnsureIdle
    /\ input = NoDocument
    /\ pc = "idle"
    /\ state = InitialState(input)
    /\ tempFiles = {}
    /\ store = EmptyStore
    /\ usedIds = {}
    /\ runs = 0
    /\ trace = <<>>
    /\ calls = <<>>
    /\ docs = {}
    /\ einput = [embedder |-> embedder, texts |-> <<>>]
    /\ epc = "idle"
    /\ ereq = NoRequest
    /\ eidx = 0
    /\ attempt = 0
    /\ embeddings = <<>>
    /\ blog = <<>>
    /\ tlog = <<>>
    /\ ecalls = <<>>

\* the embedding container holds the embedded chunks of document 1
InitProjections ==
    /\ embStore \in {ArtifactStore(1, n, doc_type, <<Some("TX"), Some(2023)>>) :
                        n \in 1..MaxArtifacts,
                        doc_type \in {Some(REQUEST), Some(RESPONSE)}}
    /\ sinput \in [group_access_list : {<<"group-A", "group-B">>},
                   index_name : {"document-chunks"},
                   chunks : {<<>>},
                   seeded : BOOLEAN]
    /\ ServicesAtRest

InitSearch ==
    /\ \/ /\ embStore = EmptyStore
          /\ sinput \in [group_access_list : GroupAccessLists,
                         index_name : {"document-chunks"},
                         chunks : {SearchChunks(n) : n \in SearchLengths},
                         seeded : {FALSE}]
          /\ ServicesAtRest
       \/ InitProjections
       \/ /\ embStore = ArtifactStore(1, ManyArtifacts, Some(REQUEST),
                                      <<Some("TX"), Some(2023)>>)
          /\ sinput = [group_access_list |-> <<"group-A", "group-B">>,
                       index_name |-> "document-chunks",
                       chunks |-> <<>>, seeded |-> FALSE]
          /\ ServicesAtRest

NextSearch ==
    \/ CallEnsure
    \/ CallUploadChunks
    \/ UploadDocument
    \/ EnsureSearchIndexExists
    \/ PrepareDocuments
    \/ UploadBatch

SpecSearch == InitSearch /\ [][NextSearch]_vars

\* POST /embed of the embedding-api, whose chunk container is empty here
EmbedRequest ==
    /\ Requests < MaxRequests
    /\ EmbedDocument

NextProjections ==
    \/ UploadDocument
    \/ EnsureSearchIndexExists
    \/ PrepareDocuments
    \/ UploadBatch
    \/ BuildGraph
    \/ DetermineType
    \/ BuildRequestGraph
    \/ BuildResponseGraph
    \/ EmbedRequest

SpecProjections == InitProjections /\ [][NextProjections]_vars

----------------------------------------------------------------------------
(* Independent invocations of an ensure function on one resource:           *)
(* ensure_search_index_exists on an index of the search service and         *)
(* BlobStorageService._ensure_container_exists on a container               *)

MaxInvocations == 2

Invocations == 1..MaxInvocations

NoOutcome == [raised |-> FALSE, faults |-> {}, created |-> FALSE]

\* calls of the existence check that fail for a reason of their own
CheckFaults(kind) ==
    IF kind = "index" THEN {"none", "key_vault", "get_index"} ELSE {"none", "exists"}

\* the existence check of invocation i. Index: get_search_admin_key, then
\* get_index, which returns when the index exists; every exception of
\* get_index leads on to create_index. Container: container_client.exists(),
\* whose AzureError is raised again
CheckExists(i) ==
    /\ i \in DOMAIN rpc
    /\ rpc[i] = "check"
    /\ \E fault \in CheckFaults(rres.kind) :
        IF fault \in {"key_vault", "exists"}
        THEN /\ rpc' = [rpc EXCEPT ![i] = "done"]
             /\ rout' = [rout EXCEPT ![i] = [raised |-> TRUE, faults |-> {fault},
                                            created |-> FALSE]]
        ELSE IF fault = "none" /\ rres.copies > 0
        THEN /\ rpc' = [rpc EXCEPT ![i] = "done"]
             /\ rout' = rout
        ELSE /\ rpc' = [rpc EXCEPT ![i] = "create"]
             /\ rout' = [rout EXCEPT ![i].faults = {fault} \ {"none"}]
    /\ UNCHANGED rres
    /\ UNCHANGED nonEnsureVars

\* create_index(index) / create_container() of invocation i: the service
\* refuses to create what exists (ResourceExistsError), and the functions
\* raise what the call raises (the index function as HTTPException(500))
CreateResource(i) ==
    /\ i \in DOMAIN rpc
    /\ rpc[i] = "create"
    /\ rpc' = [rpc EXCEPT ![i] = "done"]
    /\ \E fault \in BOOLEAN :
        IF fault
        THEN /\ rout' = [rout EXCEPT ![i].raised = TRUE,
                                     ![i].faults = @ \cup {"create"}]
             /\ rres' = rres
        ELSE IF rres.copies > 0
        THEN /\ rout' = [rout EXCEPT ![i].raised = TRUE]
             /\ rres' = rres
        ELSE /\ rout' = [rout EXCEPT ![i].created = TRUE]
             /\ rres' = [rres EXCEPT !.copies = @ + 1]
    /\ UNCHANGED nonEnsureVars

InitEnsure ==
    /\ rres \in [kind : {"index", "container"}, copies : {0, 1}]
    /\ rpc = [i \in Invocations |-> "check"]
    /\ rout = [i \in Invocations |-> NoOutcome]
    /\ input = NoDocument
    /\ pc = "idle"
    /\ state = InitialState(input)
    /\ tempFiles = {}
    /\ store = EmptyStore
    /\ usedIds = {}
    /\ runs = 0
    /\ trace = <<>>
    /\ calls = <<>>
    /\ docs = {}
    /\ EmbedIdle
    /\ GraphIdle
    /\ SearchIdle

NextEnsure ==
    \/ \E i \in Invocations : CheckExists(i)
    \/ \E i \in Invocations : CreateResource(i)

SpecEnsure == InitEnsure /\ [][NextEnsure]_vars

----------------------------------------------------------------------------
(* Properties of the pipeline graph (Spec) *)

StageOrder ==
    <<"extract_metadata", "route_processor", "save_temp_file", "process_document",
      "write_to_blob">>

StageIndex(node) == CHOOSE i \in 1..Len(StageOrder) : StageOrder[i] = node

IsPrefix(a, b) == Len(a) <= Len(b) /\ SubSeq(b, 1, Len(a)) = a

InRun == pc \notin {"idle"}

\* C1: once a stage of a run has set the error field the run is at its
\* terminal state, and no stage is invoked from there: the list of invoked
\* stages stays as it is until the caller starts another call.
C1_NoStageAfterError ==
    /\ [](state.error # None => pc = "END")
    /\ [][state.error # None =>
            \/ Stages(trace') = Stages(trace)
            \/ (runs' = runs + 1 /\ trace' = <<>>)]_vars

\* C1 witness: process_document failed and the run ended without write_to_blob
C1_Witness ==
    /\ pc = "END"
    /\ state.error # None
    /\ Stages(trace) = SubSeq(StageOrder, 1, 4)

\* C2: the stages invoked in a run are a prefix of the fixed order (so each
\* at most once); the stage about to run follows exactly the earlier ones,
\* all returned without error; the success terminal has all five behind it.
C2_FixedStageOrder ==
    /\ IsPrefix(Stages(trace), StageOrder)
    /\ pc \in {StageOrder[i] : i \in 1..Len(StageOrder)} =>
            /\ Stages(trace) = SubSeq(StageOrder, 1, StageIndex(pc) - 1)
            /\ state.error = None
    /\ (pc = "END" /\ state.error = None) => Stages(trace) = StageOrder

\* C2 witness: a run at the success terminal
C2_Witness ==
    /\ pc = "END"
    /\ state.error = None
    /\ Stages(trace) = StageOrder
    /\ HasEvent(trace, "uploads")

Unsupported(in) ==
    lower(splitext_ext(in.file_name)) \notin {EXT_PDF, EXT_DOCX, EXT_DOC}

\* C3: a file whose extension is none of .pdf, .docx, .doc takes the run from
\* extract_metadata over route_processor to the terminal state with error
\* set; no loader runs, no blob is uploaded and no temporary file is created.
C3_UnsupportedExtension ==
    (Unsupported(input) /\ InRun) =>
        /\ pc \in {"extract_metadata", "route_processor", "END"}
        /\ pc = "END" => (state.error # None /\ state.blob_write_result = None)
        /\ ~HasEvent(trace, "load")
        /\ ~HasEvent(trace, "uploads")
        /\ ~HasEvent(trace, "mkstemp")
        /\ store = EmptyStore
        /\ tempFiles = {}

\* C3 witness: r.csv with the bytes of a readable PDF, at the terminal state
C3_Witness ==
    /\ input.file_name = <<"r", ".", "c", "s", "v">>
    /\ input.document_content.format = "pdf"
    /\ Len(input.document_content.pages) > 0
    /\ pc = "END"
    /\ state.error # None

C5_NoFailureEscapes == \A i \in 1..Len(calls) : ~calls[i].raised

\* the stage an error text names
StageOfErrorText(prefix) ==
    CASE prefix = "Unsupported file type: " -> "route_processor"
      [] prefix = "Unknown processor type: " -> "process_document"
      [] prefix = "Error processing document: " -> "process_document"
      [] prefix = "Error writing to blob storage: " -> "write_to_blob"
      [] OTHER -> "none"

\* C6: a terminal state has either no error and both processed_document and
\* blob_write_result, or an error, no blob_write_result and an error text
\* that names the stage that ran last.
C6_TerminalShapes ==
    pc = "END" =>
        \/ /\ state.error = None
           /\ state.processed_document # None
           /\ state.blob_write_result # None
        \/ /\ state.error # None
           /\ state.blob_write_result = None
           /\ StageOfErrorText(Val(state.error)[1])
                = Stages(trace)[Len(Stages(trace))]

\* C6 witness: an upload failed after some blobs had been written
C6_Witness ==
    /\ pc = "END"
    /\ state.error # None
    /\ Val(state.error)[1] = "Error writing to blob storage: "
    /\ store # EmptyStore

Range(f) == {f[i] : i \in DOMAIN f}

KeysOfResult(r) ==
    {r.uploaded_files.document_metadata}
        \cup Range(r.uploaded_files.pages) \cup Range(r.uploaded_files.chunks)

\* C8: two successful runs on the same file and metadata leave the container
\* with the blob names one run writes.
C8_RerunOverwrites ==
    (Len(calls) >= 2 /\ \A i \in 1..2 : ~calls[i].raised /\ calls[i].error = None)
        => DOMAIN store = KeysOfResult(Val(calls[1].blob_write_result))

----------------------------------------------------------------------------
(* Properties of the processors and the writer (SpecStore) *)

\* the chunk_index values of a document, in page order then in-page order
ChunkIndexValues(d) ==
    LET loop == ChunkLoop(d.pages)
    IN  IF loop = <<>> THEN <<>>
        ELSE [i \in 1..Len(loop) |-> loop[i].chunk.metadata.chunk_index.v]

\* C7: the chunk_index values of every processed document are 0, 1, ..., N-1
\* in page order then in-page order.
C7_DenseChunkIndex ==
    \A d \in docs : \A i \in 1..Len(ChunkIndexValues(d)) : ChunkIndexValues(d)[i] = i - 1

DocBlobs(d) == {b \in DOMAIN store : b[1] = d.document_id}

ExpectedNames(d) ==
    {metadata_blob_name(d.document_id)}
        \cup {page_blob_name(d.document_id, d.pages[i].page_number) : i \in 1..Len(d.pages)}
        \cup {chunk_blob_name(d.document_id, c) : c \in 0..(SumChunks(d.pages) - 1)}

WrittenOk(d) ==
    {i \in 1..Len(calls) : calls[i].doc = d.document_id}

\* the container after one completed write of d into an empty container
SingleWrite(d) == StoreAfterWrite(EmptyStore, d, Len(Uploads(EmptyStore, d)))

\* C9: after one or more completed writes of a document the container holds,
\* for that document, metadata.json, one page blob per retained page and one
\* chunk blob per chunk and nothing else, each with what a write puts there;
\* before a write has completed it holds no other name either.
C9_RewriteSameKeys ==
    \A d \in docs :
        /\ DocBlobs(d) \subseteq ExpectedNames(d)
        /\ WrittenOk(d) # {} =>
            /\ DocBlobs(d) = ExpectedNames(d)
            /\ \A b \in DocBlobs(d) : store[b] = SingleWrite(d)[b]

\* C9 witness: a document with chunks written twice to the end
C9_Witness ==
    \E d \in docs : Cardinality(WrittenOk(d)) >= 2 /\ SumChunks(d.pages) >= 2

\* a physical page the PDF filter is to drop
Filtered(text) ==
    LET cleaned == clean_text_pdf(text)
    IN  \/ CharLen(cleaned) < MinPageChars
        \/ Contains(cleaned, ship_to_text)
        \/ Contains(cleaned, invoice_to_text)

\* C10: for a PDF, a physical page whose cleaned text is shorter than 50
\* characters or contains SHIP TO or INVOICE TO is no page of the processed
\* document, no chunk carries its number, and no page blob or chunk blob of
\* the document is about it.
C10_FilteredPagesAbsent ==
    input.document_content.format = "pdf" =>
        \A d \in docs : \A n \in 1..Len(input.document_content.pages) :
            Filtered(input.document_content.pages[n]) =>
                /\ \A i \in 1..Len(d.pages) :
                        /\ d.pages[i].page_number # n
                        /\ \A k \in 1..Len(d.pages[i].chunks) :
                                d.pages[i].chunks[k].metadata.page # n
                /\ page_blob_name(d.document_id, n) \notin DOMAIN store
                /\ \A b \in DocBlobs(d) :
                        b[2] = "chunks" => store[b].page_number # n

\* C10 witness: a PDF with a marker page and a retained page, written out
C10_Witness ==
    /\ input.document_content.format = "pdf"
    /\ \E n \in 1..Len(input.document_content.pages) :
            /\ Contains(clean_text_pdf(input.document_content.pages[n]), ship_to_text)
            /\ CharLen(clean_text_pdf(input.document_content.pages[n])) >= MinPageChars
    /\ \E d \in docs : Len(d.pages) >= 1 /\ WrittenOk(d) # {}

\* a physical page the processor of that format keeps
Retained(format, text) ==
    IF format = "pdf" THEN ~Filtered(text)
    ELSE CharLen(clean_text_word(text)) >= MinPageChars

\* C11: for both processors the pages of a processed document are the
\* retained physical pages, each under its 1-based physical position and
\* with the cleaned text of that position, in strictly increasing order of
\* page_number; total_pages is the number of physical pages, dropped ones
\* included.
C11_PhysicalPageNumbers ==
    LET phys == input.document_content.pages
        format == input.document_content.format
    IN  \A d \in docs :
            /\ d.total_pages = Len(phys)
            /\ \A i \in 1..Len(d.pages) :
                    /\ d.pages[i].page_number \in 1..Len(phys)
                    /\ Retained(format, phys[d.pages[i].page_number])
                    /\ d.pages[i].content =
                          (IF format = "pdf"
                           THEN clean_text_pdf(phys[d.pages[i].page_number])
                           ELSE clean_text_word(phys[d.pages[i].page_number]))
            /\ \A i \in 1..(Len(d.pages) - 1) :
                    d.pages[i].page_number < d.pages[i + 1].page_number
            /\ {d.pages[i].page_number : i \in 1..Len(d.pages)}
                    = {n \in 1..Len(phys) : Retained(format, phys[n])}

\* C11 witness: the first of two physical pages was dropped and the second
\* is the only page of the processed document, numbered 2
C11_Witness ==
    /\ Len(input.document_content.pages) = 2
    /\ \E d \in docs :
            /\ Len(d.pages) = 1
            /\ d.pages[1].page_number = 2
            /\ d.total_pages = 2

ChunkBlobs(d) == {b \in DocBlobs(d) : b[2] = "chunks"}

\* C30: after a completed write of a processed document with N chunks, from
\* either processor, the chunk blobs of the document are those named by the
\* counters 0..N-1; the blob of counter i holds the i-th chunk in page order
\* then in-page order, with chunk_index i and chunk_id (document_id, i), so
\* that no two blobs of the document share a chunk_id
C30_ChunkKeysAndIds ==
    \A d \in docs :
        WrittenOk(d) # {} =>
            LET loop == ChunkLoop(d.pages)
            IN  /\ ChunkBlobs(d) =
                        {chunk_blob_name(d.document_id, i) : i \in 0..(Len(loop) - 1)}
                /\ \A i \in 0..(Len(loop) - 1) :
                    LET blob == store[chunk_blob_name(d.document_id, i)]
                    IN  /\ blob.chunk_index = i
                        /\ blob.chunk_id = <<d.document_id, i>>
                        /\ blob.content = loop[i + 1].chunk.page_content
                        /\ blob.page_number = loop[i + 1].page.page_number
                /\ \A b \in ChunkBlobs(d) : \A c \in ChunkBlobs(d) :
                        store[b].chunk_id = store[c].chunk_id => b = c

\* a PDF of two retained pages, each with chunks, written to the end: the
\* chunk_index of the metadata starts again on the second page
C30_Witness ==
    \E d \in docs :
        /\ WrittenOk(d) # {}
        /\ Len(d.pages) = 2
        /\ Len(d.pages[1].chunks) >= 1 /\ Len(d.pages[2].chunks) >= 1
        /\ ~HasChunkId(d.pages[2].chunks[1])
        /\ d.pages[2].chunks[1].metadata.chunk_index.v = 0
        /\ store[chunk_blob_name(d.document_id, Len(d.pages[1].chunks))].chunk_index
                = Len(d.pages[1].chunks)

----------------------------------------------------------------------------
(* Properties of the embedding stage (SpecEmbed) *)

CallsOf(log) == SelectSeq(log, LAMBDA e : e.ev = "call")

SleepsOf(log) == SelectSeq(log, LAMBDA e : e.ev = "sleep")

RECURSIVE SumMs(_)
SumMs(log) == IF log = <<>> THEN 0 ELSE Head(log).ms + SumMs(Tail(log))

\* the successful batches of the embed_texts invocation, in order
BatchesOf(log) == SelectSeq(log, LAMBDA e : e.ev = "batch")

\* what embed_texts is to return for a list of texts
ExpectedVectors(texts) == [k \in 1..Len(texts) |-> Emb(texts[k])]

\* C12: an embed_texts call in which no batch failed returns one vector per
\* text, the i-th being the backend's embedding of the i-th text; on the way
\* the list holds the vectors of the texts before the batch in progress, and
\* the batches that went through tile the list in order, so every text was
\* in exactly one of them.
C12_OrderPreserved ==
    /\ \A c \in 1..Len(ecalls) :
            (ecalls[c].op = "embed_texts" /\ ~ecalls[c].raised)
                => ecalls[c].value = ExpectedVectors(ecalls[c].texts)
    /\ epc = "call" => embeddings = ExpectedVectors(SubSeq(ereq.texts, 1, eidx))
    /\ epc = "upload" => embeddings = ExpectedVectors(ereq.texts)
    /\ LET bs == BatchesOf(tlog)
       IN  /\ \A k \in 1..Len(bs) :
                /\ bs[k].lo = (IF k = 1 THEN 0 ELSE bs[k - 1].hi)
                /\ bs[k].hi = Min(bs[k].lo + ereq.cfg.batch_size, Len(ereq.texts))
           /\ (epc # "call" /\ Len(tlog) > 0 /\ tlog[Len(tlog)].ev # "failed")
                => bs[Len(bs)].hi = Len(ereq.texts)

\* C12 witness: three texts in batches of two came back, the last batch
\* being the shorter one
C12_Witness ==
    /\ Len(ecalls) = 1
    /\ ecalls[1].op = "embed_texts"
    /\ ~ecalls[1].raised
    /\ Len(ecalls[1].texts) = 3
    /\ ereq.cfg.batch_size = 2
    /\ Len(ecalls[1].value) = 3

\* the rate-limit error of the backend has left _embed_texts_batch
RateLimitSurfaced ==
    /\ epc = "idle"
    /\ blog # <<>>
    /\ blog[Len(blog)].ev = "call"
    /\ blog[Len(blog)].outcome = "RateLimitError"

\* C13: when the rate-limit error surfaces, the batch has been re-sent,
\* unchanged, in 5 retries after the first call.
C13_FiveRetriesThenError ==
    RateLimitSurfaced =>
        /\ Len(CallsOf(blog)) - 1 = DefaultMaxRetries
        /\ \A k \in 1..Len(CallsOf(blog)) : CallsOf(blog)[k].texts = CallsOf(blog)[1].texts

\* _embed_texts_batch has returned the vectors of a batch
BatchReturned ==
    /\ blog # <<>>
    /\ blog[Len(blog)].ev = "call"
    /\ blog[Len(blog)].outcome = "ok"

\* C14: when _embed_texts_batch returns after the backend throttled its first
\* k calls, k is below 5, the batch was sent k + 1 times, unchanged, each
\* throttled call being followed by one sleep, the sleep after throttled call
\* number i (from 0) lasting at least 2^i and less than 2^i + 1 seconds, and
\* the vectors of the batch are the ones returned; after 2 throttled calls the
\* sleeps add up to at least 3 seconds.
C14_BackoffSchedule ==
    BatchReturned =>
        LET k == Len(blog) \div 2
            last == blog[Len(blog)]
        IN  /\ Len(blog) = 2 * k + 1
            /\ k < DefaultMaxRetries
            /\ Len(CallsOf(blog)) = k + 1
            /\ Len(SleepsOf(blog)) = k
            /\ \A i \in 0..(k - 1) :
                    /\ blog[2 * i + 1].ev = "call"
                    /\ blog[2 * i + 1].outcome = "RateLimitError"
                    /\ blog[2 * i + 1].texts = last.texts
                    /\ blog[2 * i + 2].ev = "sleep"
                    /\ blog[2 * i + 2].ms >= Pow2(i) * 1000
                    /\ blog[2 * i + 2].ms < (Pow2(i) + 1) * 1000
            /\ SubSeq(embeddings, last.at + 1, last.at + Len(last.texts))
                    = ExpectedVectors(last.texts)
            /\ k = 2 => SumMs(SleepsOf(blog)) >= 3000

\* C14 witness: the backend throttled the first two calls of a batch and then
\* answered
C14_Witness ==
    /\ BatchReturned
    /\ Len(CallsOf(blog)) = 3
    /\ Len(SleepsOf(blog)) = 2
    /\ SumMs(SleepsOf(blog)) >= 3000

IsOtherError(e) == e.ev = "call" /\ e.outcome \notin {"ok", "RateLimitError"}

HasOtherError(log) == \E i \in 1..Len(log) : IsOtherError(log[i])

Failed(log) == log # <<>> /\ log[Len(log)].ev = "failed"

\* a step that starts the next operation, from scratch
NextOperation ==
    /\ epc = "idle"
    /\ eidx' = 0
    /\ attempt' = 0
    /\ embeddings' = <<>>
    /\ blog' = <<>>
    /\ tlog' = <<>>

\* C15: a backend error other than a rate limit is the last event of its
\* _embed_texts_batch invocation, so no sleep and no re-send follows it; the
\* operation is over with that exception, and embed_texts logs no batch and
\* no pause after it.
C15_OtherErrorsNotRetried ==
    /\ [](HasOtherError(blog) =>
            /\ IsOtherError(blog[Len(blog)])
            /\ \A i \in 1..(Len(blog) - 1) : ~IsOtherError(blog[i])
            /\ Len(CallsOf(blog)) = attempt + 1
            /\ epc = "idle"
            /\ Failed(tlog)
            /\ ecalls[Len(ecalls)].raised
            /\ ecalls[Len(ecalls)].exc = blog[Len(blog)].outcome)
    /\ [][HasOtherError(blog) =>
            \/ (blog' = blog /\ tlog' = tlog)
            \/ NextOperation]_vars

\* C15 witness: the second batch failed with another error on its second
\* attempt
C15_Witness ==
    /\ Len(blog) = 3
    /\ blog[1].outcome = "RateLimitError"
    /\ IsOtherError(blog[3])
    /\ Len(BatchesOf(tlog)) = 1
    /\ epc = "idle"

\* C16: once a batch of an embed call has failed the operation is over and
\* has handed no vector to its caller, no batch or pause follows in
\* embed_texts, and /embed has uploaded nothing: the embedding container stays
\* as it was from the first backend call of the operation on.
C16_EmbedAtomic ==
    /\ [](Failed(tlog) =>
            /\ epc = "idle"
            /\ ecalls[Len(ecalls)].raised
            /\ ecalls[Len(ecalls)].value = <<>>
            /\ ecalls[Len(ecalls)].uploaded = 0
            /\ ereq.op = "embed" => ecalls[Len(ecalls)].status = 500)
    /\ [][epc = "call" => embStore' = embStore]_vars
    /\ [][Failed(tlog) =>
            /\ embStore' = embStore
            /\ (tlog' = tlog /\ blog' = blog) \/ NextOperation]_vars

\* C16 witness: the only batch of an /embed failed after two throttled
\* calls, with chunk artifacts in place and the embedding container empty
C16_Witness ==
    /\ ereq.op = "embed"
    /\ Failed(tlog)
    /\ Len(CallsOf(blog)) = 3
    /\ Len(ereq.chunks) >= 2
    /\ Len(ecalls) = 1
    /\ ecalls[1].status = 500
    /\ embStore = EmptyStore

ChunkArtifacts(document_id) ==
    {b \in DOMAIN store : b[1] = document_id /\ b[2] = "chunks"}

EmbeddedBlobs(document_id) == {b \in DOMAIN embStore : b[1] = document_id}

\* C17: after an /embed that answered 200 for a document with N chunk
\* artifacts the embedding container holds N blobs of the document, one per
\* artifact under {document_id}/chunk-{chunk_index}.json, with the chunk_id,
\* chunk_index, page_number and content of the artifact and the vector of
\* that content.
C17_OneEmbeddingPerChunk ==
    \A c \in 1..Len(ecalls) :
        (ecalls[c].op = "embed" /\ ecalls[c].status = 200) =>
            LET id == ecalls[c].document_id
                src == ChunkArtifacts(id)
            IN  /\ Cardinality(EmbeddedBlobs(id)) = Cardinality(src)
                /\ EmbeddedBlobs(id) = {<<id, "chunk-", store[b].chunk_index>> : b \in src}
                /\ \A b \in src :
                    LET e == embStore[<<id, "chunk-", store[b].chunk_index>>]
                    IN  /\ e.chunk_id = store[b].chunk_id
                        /\ e.chunk_index = store[b].chunk_index
                        /\ e.page_number = store[b].page_number
                        /\ e.content = store[b].content
                        /\ e.embedding = Emb(store[b].content)

\* C17 witness: /embed answered 200 for a document with two chunks
C17_Witness ==
    /\ Len(ecalls) = 1
    /\ ecalls[1].op = "embed"
    /\ ecalls[1].status = 200
    /\ Cardinality(ChunkArtifacts(ecalls[1].document_id)) = 2
    /\ Cardinality(EmbeddedBlobs(ecalls[1].document_id)) = 2

\* C18: a batch that takes the number of processed items to or past a
\* multiple of pause_every, with items still to come, is followed by a
\* pause, whatever the batch size; nothing else is, the final batch least
\* of all.
C18_PauseEveryN ==
    \A i \in 1..Len(tlog) :
        /\ tlog[i].ev = "batch" =>
            LET due == /\ tlog[i].hi \div ereq.cfg.pause_every
                            > tlog[i].lo \div ereq.cfg.pause_every
                       /\ tlog[i].hi < Len(ereq.texts)
            IN  due <=> (i < Len(tlog) /\ tlog[i + 1].ev = "pause")
        /\ tlog[i].ev = "pause" => (i > 1 /\ tlog[i - 1].ev = "batch")

\* C34: whatever part of a document's write has reached the container, an
\* /embed for the document that reads chunks reads as many as the
\* document's metadata.json announces as total_chunks
C34_NoPartialDocument ==
    (ereq.op = "embed" /\ ereq.chunks # <<>>) =>
        /\ metadata_blob_name(ereq.document_id) \in DOMAIN store
        /\ Len(ereq.chunks) = store[metadata_blob_name(ereq.document_id)].total_chunks

----------------------------------------------------------------------------
(* Properties of the graph stage (SpecGraph) *)

\* runs of the workflow that ended without error
Built == {i \in 1..Len(gcalls) : gcalls[i].error = None}

\* C19: building the graph again from the same embedded chunks, with either
\* builder, leaves the database as the first complete build left it: the
\* same nodes and the same relationships, none created and none removed
C19_BuildIdempotent ==
    \A i \in Built : \A j \in Built :
        i < j =>
            /\ gcalls[j].db.nodes = gcalls[i].db.nodes
            /\ gcalls[j].db.rels = gcalls[i].db.rels
            /\ gcalls[j].entered = gcalls[i].entered

\* two complete builds of a response document of three chunks on two pages,
\* linked to the Rfp node an earlier request document created
C19_Witness ==
    /\ Built = {1, 2}
    /\ gcalls[2].entered = <<"build_response_graph">>
    /\ Len(ginput.chunks) = 3
    /\ Cardinality({n \in gdb.nodes : n.label = "ResponseChunk"}) = 3
    /\ Cardinality({n \in gdb.nodes : n.label = "Page" /\ n.key.doc_name = 1}) = 2
    /\ \E r \in gdb.rels : \E a \in gdb.nodes : \E b \in gdb.nodes :
            /\ r.type = "HAS_DOCUMENT" /\ r.from = a.id /\ r.to = b.id
            /\ a.label = "Rfp" /\ b.label = "Document" /\ b.key.doc_name = 1

\* the doc_type of the first chunk of the input, None when there is no chunk
FirstDocType ==
    IF ginput.chunks = <<>> THEN None ELSE ginput.chunks[1].metadata.doc_type

\* C20: a run of the workflow whose first chunk carries a doc_type enters
\* exactly one builder, chosen from that doc_type compared without regard to
\* case: the response builder for "response", the request builder for
\* "request" and for every other value; a run without chunks, or whose first
\* chunk has no doc_type or an empty one, enters no builder and ends in error
C20_RoutingByDocType ==
    \A i \in 1..Len(gcalls) :
        IF TruthyChars(FirstDocType)
        THEN gcalls[i].entered =
                <<IF lower(Val(FirstDocType)) = lower(RESPONSE)
                  THEN "build_response_graph" ELSE "build_request_graph">>
        ELSE gcalls[i].entered = <<>> /\ gcalls[i].error # None

\* a run on chunks whose first doc_type is "RESPONSE" and whose later chunks
\* say "request" has entered the response builder
C20_Witness ==
    /\ Len(gcalls) >= 1
    /\ Len(ginput.chunks) >= 2
    /\ FirstDocType = Some(<<"R", "E", "S", "P", "O", "N", "S", "E">>)
    /\ ginput.chunks[2].metadata.doc_type = Some(REQUEST)
    /\ gcalls[1].entered = <<"build_response_graph">>

\* C20 as stated: every run enters exactly one builder, the response builder
\* when the doc_type of the first chunk is "response" and the request builder
\* for every other value
C20_RoutingExact ==
    \A i \in 1..Len(gcalls) :
        ginput.chunks # <<>> =>
            gcalls[i].entered =
                <<IF FirstDocType = Some(RESPONSE)
                  THEN "build_response_graph" ELSE "build_request_graph">>

\* the Rfp identifier the run gcalls[i] used in its statements
RfpUsed(i) ==
    IF gcalls[i].entered = <<"build_request_graph">>
    THEN RequestRfp(ginput.document_id, ginput.chunks[1])
    ELSE ResponseRfp(ginput.document_id, ginput.chunks[1],
                     WorkflowRfpName(determine_document_type(
                        InitialWorkflowState(ginput))))

\* the Rfp nodes of a database a complete build of document doc_name left
\* linked to its Document node by HAS_DOCUMENT and HAS_RFP
LinkedRfps(db, doc_name) ==
    {a \in db.nodes :
        /\ a.label = "Rfp"
        /\ \E b \in db.nodes :
            /\ b.label = "Document" /\ b.key.doc_name = doc_name
            /\ [type |-> "HAS_DOCUMENT", from |-> a.id, to |-> b.id, copy |-> 1]
                    \in db.rels
            /\ [type |-> "HAS_RFP", from |-> b.id, to |-> a.id, copy |-> 1]
                    \in db.rels}

\* C21: the Rfp identifier a build uses, in the request builder and in the
\* response builder, is "{location} RFP {yy}" when the first chunk has both
\* location and year and otherwise the fallback keyed by the document_id
C21_RfpIdentifier ==
    \A i \in 1..Len(gcalls) :
        gcalls[i].entered # <<>> =>
            LET location == ginput.chunks[1].metadata.location
                year == ginput.chunks[1].metadata.year
            IN  RfpUsed(i) =
                    IF TruthyStr(location) /\ TruthyInt(year)
                    THEN LocationRfp(Val(location), Val(year))
                    ELSE DocumentRfp(ginput.document_id)

\* C22: after every response build that ended without error the Document
\* node is linked to an Rfp node by HAS_DOCUMENT and HAS_RFP, whether or not
\* the Rfp node existed before the build
C22_ResponseLinkedToRfp ==
    \A i \in Built :
        gcalls[i].entered = <<"build_response_graph">> =>
            LinkedRfps(gcalls[i].db, ginput.document_id) # {}

\* the document ids of the chunk nodes a Page node is linked to
PageOwners(db, p) ==
    {c.key.chunk_id[1] :
        c \in {c \in db.nodes :
                /\ c.label \in {"RequestChunk", "ResponseChunk"}
                /\ [type |-> "HAS_CHUNK", from |-> p.id, to |-> c.id, copy |-> 1]
                        \in db.rels}}

\* the chunks of the documents that have been built
DocumentChunks(document_id) ==
    IF document_id = ginput.document_id THEN ginput.chunks ELSE EarlierRequest.chunks

\* C32: after builds for documents of distinct document_ids, the same title
\* in their chunk metadata or not, every Page node is linked to chunks of one
\* document_id only and holds the page content of that document
C32_PagesNotShared ==
    \A p \in gdb.nodes :
        p.label = "Page" =>
            /\ Cardinality(PageOwners(gdb, p)) <= 1
            /\ \A d \in PageOwners(gdb, p) :
                    p.data.content = PageContent(DocumentChunks(d), p.key.page_number)

\* the Location, Year and Rfp nodes of a database and the relationships
\* that begin or end at a Location or Year node
PlaceNodes(db) == {n \in db.nodes : n.label \in {"Location", "Year", "Rfp"}}
PlaceRels(db) ==
    LET ends == {n.id : n \in {n \in db.nodes : n.label \in {"Location", "Year"}}}
    IN  {r \in db.rels : r.from \in ends \/ r.to \in ends}

\* C37: a step of the response builder, complete or cut short by an error,
\* leaves every Location, Year and Rfp node and every relationship of a
\* Location or Year node as it was, and adds none
C37_ResponseLeavesPlaces ==
    [][gpc = "build_response_graph" =>
            /\ PlaceNodes(gdb') = PlaceNodes(gdb)
            /\ PlaceRels(gdb') = PlaceRels(gdb)]_vars

\* a response build is complete in a database that held the Location, Year
\* and Rfp nodes of an earlier request: the response's Document node is
\* linked to the Rfp node and its chunks are stored
C37_Witness ==
    /\ Built # {}
    /\ gcalls[Len(gcalls)].entered = <<"build_response_graph">>
    /\ gcalls[Len(gcalls)].error = None
    /\ PlaceNodes(gdb) = PlaceNodes(GraphAfter(EarlierRequest))
    /\ PlaceRels(gdb) = PlaceRels(GraphAfter(EarlierRequest))
    /\ Cardinality(PlaceNodes(gdb)) = 3 /\ PlaceRels(gdb) # {}
    /\ LinkedRfps(gdb, ginput.document_id) # {}
    /\ \E c \in gdb.nodes : c.label = "ResponseChunk"

\* C38: the nodes_created a builder that ran without error puts into the
\* state is the number of nodes its step added to the database
C38_NodesCreatedCounted ==
    [][(gpc \in {"build_request_graph", "build_response_graph"}
            /\ gstate'.error = None) =>
        gstate'.nodes_created =
            Cardinality(gdb'.nodes) - Cardinality(gdb.nodes)]_vars

\* determine_document_type sets the error field for the input: there is no
\* chunk, or the first chunk has no doc_type or an empty one
DetermineFails == ginput.chunks = <<>> \/ ~TruthyChars(FirstDocType)

\* the calls of a run that determine_document_type ended entered no builder
\* and report an error and no node; no driver is left open
ErrorsEndTheRun ==
    /\ gdrivers = 0
    /\ DetermineFails =>
            \A i \in 1..Len(gcalls) :
                /\ gcalls[i].entered = <<>>
                /\ gcalls[i].error # None
                /\ gcalls[i].nodes_created = 0

\* C39: a run in which determine_document_type sets the error field enters
\* no builder, changes nothing in the database and reports nodes_created 0;
\* a builder that raises ends the run with the error field set, recorded in
\* the result, and its driver closed
C39_ErrorPaths ==
    /\ []ErrorsEndTheRun
    /\ [][/\ DetermineFails => gdb' = gdb
          /\ (gpc = "determine_type" /\ gstate'.error # None) => gpc' = "END"
          /\ (gpc \in {"build_request_graph", "build_response_graph"}
                /\ gstate'.error # None) =>
                /\ gpc' = "END"
                /\ gdrivers' = gdrivers
                /\ gcalls' # gcalls
                /\ gcalls'[Len(gcalls')].error = gstate'.error]_vars

\* a builder raised after its first statements had run: the run is over, the
\* result carries the error and no driver is open
C39_Witness ==
    /\ gpc = "END"
    /\ Len(gcalls) = 1
    /\ gcalls[1].entered # <<>>
    /\ gcalls[1].error # None
    /\ gdrivers = 0
    /\ \E d \in gdb.nodes : d.label = "Document" /\ d.key.doc_name = 1
    /\ ~\E c \in gdb.nodes : c.label \in {"RequestChunk", "ResponseChunk"}

\* a is the text of the first characters of b
RECURSIVE PrefixOf(_, _)
PrefixOf(a, b) ==
    \/ a = <<>>
    \/ /\ b # <<>>
       /\ Head(a).ch = Head(b).ch
       /\ \/ Head(a).n = Head(b).n /\ PrefixOf(Tail(a), Tail(b))
          \/ Head(a).n < Head(b).n /\ Tail(a) = <<>>

\* the documents whose builds may have written to the database
GraphDocuments ==
    {d \in {ginput, EarlierRequest, EarlierTitled} : d.chunks # <<>>}

\* C35: the content of every Page node is at most 5000 characters long and is
\* the text of the first 5000 characters of the contents, joined by spaces,
\* of the chunks of that page of a document built under the page's doc_name;
\* the text of every chunk node is the whole content of its chunk
C35_PageContentTruncated ==
    /\ \A p \in gdb.nodes :
         p.label = "Page" =>
            /\ CharLen(p.data.content) <= 5000
            /\ \E d \in GraphDocuments :
                 LET joined == JoinSp(PageChunkContents(d.chunks, p.key.page_number))
                 IN  /\ DocName(d.document_id, d.chunks[1]) = p.key.doc_name
                     /\ CharLen(p.data.content) = Min(CharLen(joined), 5000)
                     /\ PrefixOf(p.data.content, joined)
    /\ \A c \in gdb.nodes :
         c.label \in {"RequestChunk", "ResponseChunk"} =>
            \E d \in GraphDocuments : \E k \in 1..Len(d.chunks) :
                /\ d.chunks[k].chunk_id = c.key.chunk_id
                /\ c.data.text = d.chunks[k].content

\* a build of three chunks is complete: the two chunks of page 1 have 5501
\* characters when joined and the page holds 5000 of them, the chunk of
\* page 2 has 5104 characters, all of them in its node and 5000 in the page
C35_Witness ==
    /\ Built # {}
    /\ Len(ginput.chunks) = 3
    /\ \E p \in gdb.nodes :
         /\ p.label = "Page" /\ p.key.doc_name = 1 /\ p.key.page_number = 1
         /\ p.data.content = <<R("x", 3000), SP, R("x", 1999)>>
    /\ \E p \in gdb.nodes :
         /\ p.label = "Page" /\ p.key.doc_name = 1 /\ p.key.page_number = 2
         /\ p.data.content = <<R("x", 5000)>>
    /\ \E c \in gdb.nodes :
         /\ c.label \in {"RequestChunk", "ResponseChunk"}
         /\ c.key.chunk_id = <<1, 2>>
         /\ CharLen(c.data.text) = 5104

----------------------------------------------------------------------------
(* Properties of the search index and of the two projections               *)
(* (SpecSearch, SpecProjections)                                            *)

\* the step is a run of ensure_search_index_exists in which every call of
\* the key vault and of the search service is answered
EnsureAnswered ==
    /\ spc = "ensure"
    /\ Len(slog') = Len(slog) + 1
    /\ slog'[Len(slog')].call = "ensure"
    /\ slog'[Len(slog')].faults = {}

\* C23: a run of ensure_search_index_exists whose calls are all answered
\* completes without error; when the index is absent it creates it, empty,
\* and when the index exists it changes nothing, so that after any number of
\* successive runs there is one index of the name
C23_EnsureIdempotent ==
    [][EnsureAnswered =>
        /\ ~slog'[Len(slog')].raised
        /\ sreq.index_name \in DOMAIN indexes'
        /\ IF sreq.index_name \in DOMAIN indexes
           THEN indexes' = indexes
           ELSE /\ DOMAIN indexes' = DOMAIN indexes \cup {sreq.index_name}
                /\ indexes'[sreq.index_name] = <<>>
                /\ \A n \in DOMAIN indexes : indexes'[n] = indexes[n]]_vars

\* two successive direct calls, the first on a service without the index,
\* both completed without error
C23_Witness ==
    /\ ~sinput.seeded
    /\ Len(scalls) = 2
    /\ \A i \in 1..2 :
        /\ scalls[i].op = "ensure"
        /\ ~scalls[i].raised
        /\ scalls[i].log[1].faults = {}
    /\ DOMAIN indexes = {sinput.index_name}

\* the calls of upload_documents an operation made, in order
UploadCalls(o) == SelectSeq(o.log, LAMBDA e : e.call = "upload_documents")

\* upload_chunks_to_search_index ran in the operation, and every call it made
\* of the key vault and of the search service was answered
UploadAnswered(o) ==
    /\ o.op \in {"upload_chunks", "upload"}
    /\ o.storage /\ o.status # 404
    /\ \A k \in 1..Len(o.log) : o.log[k].faults = {}

\* C24: whatever documents the service reports as failed, an upload whose
\* calls are answered submits the batches of at most 100 documents once each
\* and in order, up to the last, and completes without raising
C24_BestEffortUpload ==
    \A i \in 1..Len(scalls) :
        UploadAnswered(scalls[i]) =>
            LET o == scalls[i]
                ups == UploadCalls(o)
            IN  /\ ~o.raised
                /\ Len(ups) * SearchBatchSize >= o.total_chunks
                /\ (Len(ups) - 1) * SearchBatchSize < o.total_chunks \/ Len(ups) = 0
                /\ \A j \in 1..Len(ups) :
                    /\ ups[j].from = (j - 1) * SearchBatchSize
                    /\ ups[j].to = Min(j * SearchBatchSize, o.total_chunks)
                    /\ ups[j].to - ups[j].from <= SearchBatchSize

\* an upload of 101 chunks whose first batch had failed documents and which
\* went on to the second batch and returned
C24_Witness ==
    \E i \in 1..Len(scalls) :
        /\ UploadAnswered(scalls[i])
        /\ scalls[i].total_chunks = SearchBatchSize + 1
        /\ Len(UploadCalls(scalls[i])) = 2
        /\ UploadCalls(scalls[i])[1].failed # {}
        /\ ~scalls[i].raised

\* C25: every document built for an upload has as group_id the collection
\* of one element, the first group of the configured access list
C25_GroupIdCollection ==
    \A k \in 1..Len(sdocs) :
        /\ sdocs[k].group_id.type = "list"
        /\ sdocs[k].group_id.v = <<sreq.group_access_list[1]>>

\* the embedded chunks of document 1, as both projections download them
ProjectedChunks == download_embedded_chunks_from_blob_storage(embStore, 1, TRUE).chunks

\* the graph a build of document 1 alone leaves in an empty database
SequentialGraph ==
    LET in == [document_id |-> 1, chunks |-> ProjectedChunks]
        st == determine_document_type(InitialWorkflowState(in))
        stmts == IF route_by_document_type(st) = "build_response_graph"
                 THEN ResponseStatements(1, ProjectedChunks, WorkflowRfpName(st))
                 ELSE RequestStatements(1, ProjectedChunks)
    IN  ApplyStatements(EmptyGraph, stmts, Len(stmts))

\* a document of the index without its create_date
Undated(d) == [d EXCEPT !.create_date = 0]

\* the documents an upload of document 1 alone leaves in the index, next to
\* those the index held before
SequentialIndex ==
    {Undated(SearchDocument(ProjectedChunks[k], sinput.group_access_list, 0)) :
        k \in 1..Len(ProjectedChunks)}
    \cup (IF sinput.seeded
          THEN {Undated(SeededIndexes(sinput.index_name)[sinput.index_name][1])}
          ELSE {})

\* /upload of document 1 returned and the service stored every document
UploadedClean(o) ==
    /\ o.op = "upload" /\ ~o.raised
    /\ \A k \in 1..Len(o.log) : o.log[k].failed = {}

\* every completed build and every completed upload left what it leaves alone
ProjectionsAsAlone ==
    /\ \A i \in Built : gcalls[i].db = SequentialGraph
    /\ (\E i \in 1..Len(scalls) : UploadedClean(scalls[i])) =>
            /\ sinput.index_name \in DOMAIN indexes
            /\ {Undated(indexes[sinput.index_name][k]) :
                    k \in 1..Len(indexes[sinput.index_name])} = SequentialIndex
            /\ Len(indexes[sinput.index_name]) = Cardinality(SequentialIndex)

\* C26: with the embedded chunks of a document fixed, however the steps of
\* /build-graph and /upload are interleaved, a completed build leaves the
\* graph a build alone leaves, a completed upload leaves the index content
\* (create_date apart) an upload alone leaves, and no step of either changes
\* the container of the embedded chunks
C26_ProjectionsIndependent ==
    /\ []ProjectionsAsAlone
    /\ [][embStore' = embStore]_vars

\* /upload has run from its download to its response and stored every
\* document while /build-graph, begun before the documents were dated, is
\* inside a builder
C26_Witness ==
    /\ Len(scalls) = 1 /\ UploadedClean(scalls[1])
    /\ gresp = <<>> /\ gcalls = <<>>
    /\ gpc \in {"build_request_graph", "build_response_graph"}
    /\ sinput.seeded
    /\ Len(indexes[sinput.index_name]) = Len(ProjectedChunks) + 1
    /\ \E k \in 1..Len(indexes[sinput.index_name]) :
            /\ indexes[sinput.index_name][k].document_id = Some(1)
            /\ indexes[sinput.index_name][k].create_date = 2

\* the uploads that returned and of which the service stored every document
CleanUploads ==
    {i \in 1..Len(scalls) :
        /\ scalls[i].op \in {"upload_chunks", "upload"}
        /\ ~scalls[i].raised /\ scalls[i].total_chunks > 0
        /\ \A k \in 1..Len(scalls[i].log) : scalls[i].log[k].failed = {}}

\* the embedded chunks every upload submits: those of the direct call, or
\* those /upload downloads for document 1
UploadedChunks ==
    IF sinput.chunks # <<>> THEN sinput.chunks
    ELSE download_embedded_chunks_from_blob_storage(embStore, 1, TRUE).chunks

\* C36: once the chunks have been uploaded, a further upload of the same
\* chunks, complete or under way, leaves the index with exactly one record
\* per chunk, whose id is the chunk_id and whose vector is the embedding;
\* the records are those of the first upload but for their create_date, and
\* none is added
C36_ReuploadOverwrites ==
    CleanUploads # {} =>
        LET idx == indexes[sinput.index_name]
        IN  /\ Len(idx) = Len(UploadedChunks) + (IF sinput.seeded THEN 1 ELSE 0)
            /\ \A k \in 1..Len(UploadedChunks) :
                 LET at == {p \in 1..Len(idx) : idx[p].id = UploadedChunks[k].chunk_id}
                 IN  /\ Cardinality(at) = 1
                     /\ \A p \in at :
                          /\ idx[p].vector = UploadedChunks[k].embedding
                          /\ Undated(idx[p]) =
                                Undated(SearchDocument(UploadedChunks[k],
                                                       sinput.group_access_list, 0))

\* two /upload of the two embedded chunks of document 1 have returned: next
\* to the record an earlier upload of another document left, the index holds
\* two records, both with the create_date of the second upload
C36_Witness ==
    /\ CleanUploads = {1, 2}
    /\ Len(UploadedChunks) = 2
    /\ sinput.seeded
    /\ Len(indexes[sinput.index_name]) = 3
    /\ \A p \in 1..Len(indexes[sinput.index_name]) :
         indexes[sinput.index_name][p].document_id = Some(1) =>
            indexes[sinput.index_name][p].create_date = 2

\* C27: a run of ensure_search_index_exists in which get_index fails for a
\* reason other than the absence of the index (authorization, network)
\* reports the failure to its caller and creates nothing
C27_ExistenceFailureSurfaced ==
    [][(/\ spc = "ensure"
        /\ Len(slog') = Len(slog) + 1
        /\ "get_index" \in slog'[Len(slog')].faults)
       => (slog'[Len(slog')].raised /\ indexes' = indexes)]_vars

\* the container of embedded chunks holds nothing of the document
NoArtifacts(document_id) == list_embedded_blobs(embStore, document_id) = <<>>

\* the outcomes of /upload, /build-graph and /embed that the download decided
DownloadOutcomes ==
    /\ \A i \in 1..Len(scalls) :
        LET o == scalls[i]
        IN  o.op = "upload" =>
                /\ ~o.storage => o.raised /\ o.status = 500 /\ o.log = <<>>
                /\ (o.storage /\ NoArtifacts(o.document_id)) =>
                        o.raised /\ o.status = 404 /\ o.log = <<>>
                /\ o.status = 404 => NoArtifacts(o.document_id)
    /\ \A i \in 1..Len(gresp) :
        /\ ~gresp[i].storage => gresp[i].status = 500
        /\ gresp[i].storage =>
                gresp[i].status = 404 /\ NoArtifacts(gresp[i].document_id)
    /\ \A i \in 1..Len(gcalls) : ~NoArtifacts(gcalls[i].document_id)
    /\ \A i \in 1..Len(ecalls) :
        LET o == ecalls[i]
        IN  (o.op = "embed" /\ list_blobs(store, o.document_id) = <<>>) =>
                /\ o.raised /\ o.status \in {404, 500}
                /\ o.texts = <<>> /\ o.value = <<>> /\ o.uploaded = 0
    /\ \A document_id \in RequestIds : \A pydantic_major \in {1, 2} :
        list_blobs(store, document_id) = <<>> =>
            /\ download_chunks_from_blob_storage(store, document_id,
                                                 pydantic_major, TRUE).status = 404
            /\ download_chunks_from_blob_storage(store, document_id,
                                                 pydantic_major, FALSE).status = 500

\* the step ends a request with the not-found outcome
EndsNotFound ==
    \/ /\ Len(scalls') = Len(scalls) + 1
       /\ scalls'[Len(scalls')].status = 404
    \/ /\ Len(gresp') = Len(gresp) + 1
       /\ gresp'[Len(gresp')].status = 404
    \/ /\ Len(ecalls') = Len(ecalls) + 1
       /\ ecalls'[Len(ecalls')].status = 404

\* C28: /embed, /build-graph and /upload for a document without input
\* artifacts end with 404, having called neither the embedding backend, the
\* graph database nor the search service and having written nothing; when
\* the storage account fails during the listing or a download they end with
\* 500; and 404 is the outcome of no request whose document has artifacts
C28_NotFoundDistinguished ==
    /\ []DownloadOutcomes
    /\ [][EndsNotFound =>
            /\ indexes' = indexes /\ gdb' = gdb
            /\ embStore' = embStore /\ store' = store
            /\ slog' \in {slog, <<>>} /\ blog' \in {blog, <<>>}
            /\ Len(gcalls') = Len(gcalls)]_vars

\* /upload and /build-graph were both asked for document 2, of which the
\* container holds nothing while it holds the chunks of document 1, and both
\* answered 404
C28_Witness ==
    /\ ~NoArtifacts(1) /\ NoArtifacts(2)
    /\ Len(scalls) = 1 /\ scalls[1].op = "upload"
    /\ scalls[1].document_id = 2 /\ scalls[1].status = 404
    /\ Len(gresp) = 1 /\ gresp[1].document_id = 2 /\ gresp[1].status = 404
    /\ gcalls = <<>>

\* C33: the chunks a projection downloads for a document, of any number of
\* chunks, are in ascending chunk_index order, beginning with chunk 0
C33_ListedInChunkOrder ==
    \A k \in 1..Len(sreq.chunks) : sreq.chunks[k].chunk_index = k - 1

----------------------------------------------------------------------------
(* Properties of concurrent ensure invocations (SpecEnsure) *)

\* C31: however the steps of independent invocations of an ensure function
\* are interleaved, an invocation whose calls are all answered completes
\* without error, and the resource then exists once
C31_ConcurrentEnsure ==
    \A i \in DOMAIN rpc :
        (rpc[i] = "done" /\ rout[i].faults = {}) =>
            (~rout[i].raised /\ rres.copies = 1)
====
